---- MODULE Spec2Model ----
(***************************************************************************)
(* Disaster-Monitoring: the TTL cache kept in the `cache` table            *)
(* (services/database.js) and the geocoding provider chain                 *)
(* (services/geocoding.js) that is built on it.                            *)
(*                                                                         *)
(* Time is the JavaScript clock in milliseconds.  Every await of the code  *)
(* is a point where another request may run, so each store call is an      *)
(* action of its own and each caller has a position (cpc) between them.    *)
(***************************************************************************)
EXTENDS Integers, Sequences, FiniteSets, TLC

\* ------------------------------------------------------------- bounds
MaxTicks == 3
MaxTtl == 1
MaxCalls == 3
MaxRouteCalls == 2
MaxUpdateCalls == 2
MaxScrapeCalls == 1
MaxHandlerCalls == 3
MaxIntervalTicks == 3
MaxSingleCalls == 1
MaxMockCalls == 2

\* ---------------------------------------------------------- constants
MsPerSec == 1000

Clients == {"c1", "c2"}
Requests == {"r1", "r2"}
Updaters == {"u1"}
Scrapers == {"s1", "s2", "s3"}
Callers == Clients \cup Requests \cup Updaters \cup Scrapers
TickMs == MsPerSec \div 2
StreamIntervalMs == 30 * MsPerSec
Ttls == 1..MaxTtl
CacheKeys == {"k1", "k2"}
CacheValues == {"v1", "v2"}
StoreOutcomes == {"ok", "error", "throw"}

\* null / undefined of the code, and a present value
Null == <<>>
Some(v) == <<v>>

VARIABLES
    now,        \* Date.now(), in ms
    supabase,   \* TRUE when the client was created, FALSE in demo mode
    store,      \* the rows of table cache
    cpc,        \* per caller: its position inside a cache function
    frame,      \* per caller: the locals of the cache function it runs
    ret,        \* per caller: how its last cache call ended
    seq,        \* history: no cache call ever began while another was running
    faulted,    \* history: some store call has failed
    lastSet,    \* history: per key, the latest setCache call of a client
    calls,      \* the number of calls the clients and requests have made
    env,        \* process.env: is GOOGLE_MAPS_API_KEY / MAPBOX_ACCESS_TOKEN set
    gpc,        \* per request: its position inside the geocoding service
    gframe,     \* per request: the locals of the geocoding call it runs
    gret,       \* per request: how its last geocoding call ended
    upc,        \* per updates request: its position inside fetchOfficialUpdates
    uframe,     \* per updates request: the locals of the handler and the service
    uret,       \* per updates request: what fetchOfficialUpdates returned last
    uresp,      \* per updates request: the response sent last
    scoreIn,    \* the post and the analysis handed to calculatePriority
    scoreOut,   \* what calculatePriority returned for them
    spc,        \* per source: the position of its scrapeOfficialSource call
    sres,       \* per source: the promise of its scrapeOfficialSource call
    apc,        \* the position of scrapeAllOfficialSources
    aret,       \* what scrapeAllOfficialSources returned last
    hpc,        \* per request: its position inside POST /reverse or POST /disasters
    hframe,     \* per request: the locals of that handler and of reverseGeocode
    hreq,       \* per request: the route and the body of the request
    hresp,      \* per request: the response sent
    disasters,  \* the rows of table disasters
    filterIn,   \* the updates and the priority handed to filterUpdatesByPriority
    filterOut,  \* what filterUpdatesByPriority returned for them
    events,     \* the events broadcast with req.io.emit, oldest first
    reports,    \* the rows of table reports
    stream      \* the social media stream: its interval, fetches and output

geoVars == <<env, gpc, gframe, gret>>

updVars == <<upc, uframe, uret, uresp>>

scoreVars == <<scoreIn, scoreOut>>

scrapeVars == <<spc, sres, apc, aret>>

valVars == <<hpc, hframe, hreq, hresp, disasters>>

filterVars == <<filterIn, filterOut>>

extVars == <<filterVars, events, reports, stream>>

appVars == <<updVars, scoreVars, scrapeVars, valVars, extVars>>

vars ==
    <<now, supabase, store, cpc, frame, ret, seq, faulted, lastSet, calls, geoVars, appVars>>

\* ------------------------------------------------------------ the clock
\* Date.prototype.toISOString: the instant as text with millisecond precision,
\* kept here as <<whole seconds, milliseconds>>
toISOString(ms) == <<ms \div MsPerSec, ms % MsPerSec>>

\* new Date(text): the instant of a stored timestamp, in ms
ParseDate(ts) == ts[1] * MsPerSec + ts[2]

\* timestamptz `<` of the store
TsLess(a, b) == a[1] < b[1] \/ (a[1] = b[1] /\ a[2] < b[2])

\* ------------------------------------------------------ table cache
\* (variant: a plain insert that keeps the old row)
Upsert_insert(rows, row) == rows \cup {row}

\* key is the PRIMARY KEY: an upsert replaces the row of the same key
Upsert(rows, row) == {r \in rows : r.key # row.key} \cup {row}

\* .select('value, expires_at').eq('key', key)
SelectByKey(rows, key) == {r \in rows : r.key = key}

\* .delete().eq('key', key)
DeleteByKey(rows, key) == {r \in rows : r.key # key}

\* (variant: .lte instead of .lt)
DeleteExpired_inclusive(rows, cutoff) == {r \in rows : TsLess(cutoff, r.expires_at)}

\* .delete().lt('expires_at', cutoff)
DeleteExpired(rows, cutoff) == {r \in rows : ~TsLess(r.expires_at, cutoff)}

\* ------------------------------------------------------ cache functions
NoFrame ==
    [op |-> "none", key |-> "", value |-> Null, expires_at |-> <<0, 0>>,
     error |-> FALSE, data |-> {}, fault |-> FALSE]

\* How a call ended: kind is "return" or "throw", value what it returned, via
\* the branch it took ("demo": no client, "error": a store call of it failed,
\* "miss", "hit", "expired", "ok").
NoRet == [op |-> "none", key |-> "", kind |-> "none", value |-> Null, via |-> "none"]

Returned(f, v, via) ==
    [op |-> f.op, key |-> f.key, kind |-> "return", value |-> v,
     via |-> IF f.fault THEN "error" ELSE via]

Thrown(f) ==
    [op |-> f.op, key |-> f.key, kind |-> "throw", value |-> Null, via |-> "error"]

\* (variant: the catch block rethrows)
getFromCache_rethrow(f) == Thrown(f)

\* getFromCache: catch (error) { logger.error(...); return null; }
getFromCache_catch(f) == Returned(f, Null, "error")

\* setCache: catch (error) { logger.error(...); }
setCache_catch(f) == Returned(f, Null, "error")

\* cleanupExpiredCache: catch (error) { logger.error(...); }
cleanupExpiredCache_catch(f) == Returned(f, Null, "error")

\* (variants: the comparison reversed; a second of grace)
IsExpired_reversed(expires_at, t) == t < ParseDate(expires_at)
IsExpired_late(expires_at, t) == ParseDate(expires_at) + MsPerSec < t

\* new Date(data.expires_at) < new Date()
IsExpired(expires_at, t) == ParseDate(expires_at) < t

\* (variant: the TTL taken as milliseconds)
ExpiresAt_unscaled(t, ttlSeconds) == toISOString(t + ttlSeconds)

\* new Date(Date.now() + ttlSeconds * 1000).toISOString()
ExpiresAt(t, ttlSeconds) == toISOString(t + ttlSeconds * MsPerSec)

\* The call of getFromCache(key), up to its first await.
getFromCache(p, key) ==
    /\ cpc[p] = "idle"
    /\ LET f == [NoFrame EXCEPT !.op = "get", !.key = key]
       IN  IF ~supabase
           THEN /\ ret' = [ret EXCEPT ![p] = Returned(f, Null, "demo")]
                /\ UNCHANGED <<cpc, frame>>
           ELSE /\ cpc' = [cpc EXCEPT ![p] = "get_select"]
                /\ frame' = [frame EXCEPT ![p] = f]
                /\ ret' = [ret EXCEPT ![p] = NoRet]

\* The store answers the select ... .single(): one row, or an error.
getFromCache_select(p) ==
    /\ cpc[p] = "get_select"
    /\ \E out \in StoreOutcomes :
         LET rows == SelectByKey(store, frame[p].key)
             one == out = "ok" /\ Cardinality(rows) = 1
             f == [frame[p] EXCEPT !.error = ~one, !.data = IF one THEN rows ELSE {},
                                   !.fault = (out # "ok")]
         IN  /\ faulted' = (faulted \/ out # "ok")
             /\ IF out = "throw"
                THEN /\ cpc' = [cpc EXCEPT ![p] = "idle"]
                     /\ frame' = [frame EXCEPT ![p] = NoFrame]
                     /\ ret' = [ret EXCEPT ![p] = getFromCache_catch(f)]
                ELSE /\ cpc' = [cpc EXCEPT ![p] = "get_check"]
                     /\ frame' = [frame EXCEPT ![p] = f]
                     /\ UNCHANGED ret
    /\ UNCHANGED <<now, supabase, store, seq, lastSet, calls, geoVars, appVars>>

\* After the select: error or no data is a miss, an expired row is deleted,
\* anything else is returned.
getFromCache_check(p) ==
    /\ cpc[p] = "get_check"
    /\ LET f == frame[p]
       IN  IF f.error \/ f.data = {}
           THEN /\ cpc' = [cpc EXCEPT ![p] = "idle"]
                /\ frame' = [frame EXCEPT ![p] = NoFrame]
                /\ ret' = [ret EXCEPT ![p] = Returned(f, Null, "miss")]
           ELSE LET row == CHOOSE r \in f.data : TRUE
                IN  IF IsExpired(row.expires_at, now)
                    THEN /\ cpc' = [cpc EXCEPT ![p] = "get_delete"]
                         /\ UNCHANGED <<frame, ret>>
                    ELSE /\ cpc' = [cpc EXCEPT ![p] = "idle"]
                         /\ frame' = [frame EXCEPT ![p] = NoFrame]
                         /\ ret' = [ret EXCEPT ![p] = Returned(f, Some(row.value), "hit")]
    /\ UNCHANGED <<now, supabase, store, seq, faulted, lastSet, calls, geoVars, appVars>>

\* The store runs the delete of the expired key (its result is not looked at);
\* getFromCache returns null.
getFromCache_delete(p) ==
    /\ cpc[p] = "get_delete"
    /\ \E out \in StoreOutcomes :
         /\ store' = IF out = "ok" THEN DeleteByKey(store, frame[p].key) ELSE store
         /\ faulted' = (faulted \/ out # "ok")
         /\ ret' = [ret EXCEPT ![p] =
                LET f == [frame[p] EXCEPT !.fault = (out # "ok")]
                IN  IF out = "throw" THEN getFromCache_catch(f)
                    ELSE Returned(f, Null, "expired")]
    /\ cpc' = [cpc EXCEPT ![p] = "idle"]
    /\ frame' = [frame EXCEPT ![p] = NoFrame]
    /\ UNCHANGED <<now, supabase, seq, lastSet, calls, geoVars, appVars>>

\* The call of setCache(key, value, ttlSeconds), up to its await.
setCache(p, key, value, ttlSeconds) ==
    /\ cpc[p] = "idle"
    /\ LET f == [NoFrame EXCEPT !.op = "set", !.key = key, !.value = Some(value),
                                !.expires_at = ExpiresAt(now, ttlSeconds)]
       IN  IF ~supabase
           THEN /\ ret' = [ret EXCEPT ![p] = Returned(f, Null, "demo")]
                /\ UNCHANGED <<cpc, frame>>
           ELSE /\ cpc' = [cpc EXCEPT ![p] = "set_upsert"]
                /\ frame' = [frame EXCEPT ![p] = f]
                /\ ret' = [ret EXCEPT ![p] = NoRet]

\* The store runs the upsert; an error is logged, an exception caught.
setCache_upsert(p) ==
    /\ cpc[p] = "set_upsert"
    /\ \E out \in StoreOutcomes :
         LET f == [frame[p] EXCEPT !.fault = (out # "ok")]
             row == [key |-> f.key, value |-> f.value[1], expires_at |-> f.expires_at]
         IN  /\ store' = IF out = "ok" THEN Upsert(store, row) ELSE store
             /\ faulted' = (faulted \/ out # "ok")
             /\ ret' = [ret EXCEPT ![p] =
                    IF out = "throw" THEN setCache_catch(f) ELSE Returned(f, Null, "ok")]
    /\ cpc' = [cpc EXCEPT ![p] = "idle"]
    /\ frame' = [frame EXCEPT ![p] = NoFrame]
    /\ UNCHANGED <<now, supabase, seq, lastSet, calls, geoVars, appVars>>

\* The call of cleanupExpiredCache(), up to its await: the cutoff is read here.
cleanupExpiredCache(p) ==
    /\ cpc[p] = "idle"
    /\ LET f == [NoFrame EXCEPT !.op = "cleanup", !.expires_at = toISOString(now)]
       IN  IF ~supabase
           THEN /\ ret' = [ret EXCEPT ![p] = Returned(f, Null, "demo")]
                /\ UNCHANGED <<cpc, frame>>
           ELSE /\ cpc' = [cpc EXCEPT ![p] = "cleanup_delete"]
                /\ frame' = [frame EXCEPT ![p] = f]
                /\ ret' = [ret EXCEPT ![p] = NoRet]

\* The store runs the delete of every row older than the cutoff.
cleanupExpiredCache_delete(p) ==
    /\ cpc[p] = "cleanup_delete"
    /\ \E out \in StoreOutcomes :
         /\ store' = IF out = "ok" THEN DeleteExpired(store, frame[p].expires_at) ELSE store
         /\ faulted' = (faulted \/ out # "ok")
         /\ ret' = [ret EXCEPT ![p] =
                LET f == [frame[p] EXCEPT !.fault = (out # "ok")]
                IN  IF out = "throw" THEN cleanupExpiredCache_catch(f)
                    ELSE Returned(f, Null, "ok")]
    /\ cpc' = [cpc EXCEPT ![p] = "idle"]
    /\ frame' = [frame EXCEPT ![p] = NoFrame]
    /\ UNCHANGED <<now, supabase, seq, lastSet, calls, geoVars, appVars>>

\* ----------------------------------------------------------- geocoding
\* A JavaScript string is its UTF-16 code units; anything else is not a string.
Str(units) == [type |-> "string", units |-> units]
Undefined == [type |-> "undefined", units |-> <<>>]

\* A JavaScript number (coordinates in units of 0.0001 degree), or NaN.
Num(v) == [t |-> "number", v |-> v]
NaN == [t |-> "NaN", v |-> 0]
IsNumeric(x) == x.t = "number"
CoordScale == 10 * 10 * 10 * 10

\* Buffer.from(string): the UTF-8 bytes; a lone surrogate becomes U+FFFD.
RECURSIVE Utf8(_)
Utf8(units) ==
    IF units = <<>> THEN <<>>
    ELSE LET u == Head(units)
             hi == u >= 55296 /\ u <= 56319
             lo == u >= 56320 /\ u <= 57343
             pair == hi /\ Len(units) > 1 /\ units[2] >= 56320 /\ units[2] <= 57343
             cp == 65536 + (u - 55296) * 1024 + (units[2] - 56320)
         IN  IF u < 128 THEN <<u>> \o Utf8(Tail(units))
             ELSE IF u < 2048
             THEN <<192 + (u \div 64), 128 + (u % 64)>> \o Utf8(Tail(units))
             ELSE IF pair
             THEN <<240 + (cp \div 262144), 128 + ((cp \div 4096) % 64),
                    128 + ((cp \div 64) % 64), 128 + (cp % 64)>> \o Utf8(Tail(Tail(units)))
             ELSE IF hi \/ lo THEN <<239, 191, 189>> \o Utf8(Tail(units))
             ELSE <<224 + (u \div 4096), 128 + ((u \div 64) % 64), 128 + (u % 64)>>
                    \o Utf8(Tail(units))

\* encodeURIComponent(locationName), which axios also applies to the params
\* of a request, throws URIError on a string with a lone surrogate: TRUE when
\* the string has none.
RECURSIVE WellFormed(_)
WellFormed(units) ==
    IF units = <<>> THEN TRUE
    ELSE LET u == units[1]
         IN  IF u >= 55296 /\ u <= 56319
             THEN /\ Len(units) > 1 /\ units[2] >= 56320 /\ units[2] <= 57343
                  /\ WellFormed(Tail(Tail(units)))
             ELSE IF u >= 56320 /\ u <= 57343 THEN FALSE
             ELSE WellFormed(Tail(units))

Base64Alphabet ==
    <<"A", "B", "C", "D", "E", "F", "G", "H", "I", "J", "K", "L", "M",
      "N", "O", "P", "Q", "R", "S", "T", "U", "V", "W", "X", "Y", "Z",
      "a", "b", "c", "d", "e", "f", "g", "h", "i", "j", "k", "l", "m",
      "n", "o", "p", "q", "r", "s", "t", "u", "v", "w", "x", "y", "z",
      "0", "1", "2", "3", "4", "5", "6", "7", "8", "9", "+", "/">>

\* buffer.toString('base64')
RECURSIVE Base64(_)
Base64(bytes) ==
    LET c(i) == Base64Alphabet[i + 1]
    IN  IF bytes = <<>> THEN ""
        ELSE IF Len(bytes) = 1
        THEN c(bytes[1] \div 4) \o c((bytes[1] % 4) * 16) \o "=="
        ELSE IF Len(bytes) = 2
        THEN c(bytes[1] \div 4) \o c((bytes[1] % 4) * 16 + (bytes[2] \div 16))
               \o c((bytes[2] % 16) * 4) \o "="
        ELSE c(bytes[1] \div 4) \o c((bytes[1] % 4) * 16 + (bytes[2] \div 16))
               \o c((bytes[2] % 16) * 4 + (bytes[3] \div 64)) \o c(bytes[3] % 64)
               \o Base64(SubSeq(bytes, 4, Len(bytes)))

\* parseFloat of a string of characters: sign, digits, fraction; NaN when it
\* does not start with a number.
DigitValue ==
    ("0" :> 0) @@ ("1" :> 1) @@ ("2" :> 2) @@ ("3" :> 3) @@ ("4" :> 4) @@
    ("5" :> 5) @@ ("6" :> 6) @@ ("7" :> 7) @@ ("8" :> 8) @@ ("9" :> 9)

RECURSIVE LeadingDigits(_)
LeadingDigits(s) ==
    IF s = <<>> \/ Head(s) \notin DOMAIN DigitValue THEN <<>>
    ELSE <<Head(s)>> \o LeadingDigits(Tail(s))

RECURSIVE DigitsValue(_)
DigitsValue(d) ==
    IF d = <<>> THEN 0 ELSE DigitsValue(SubSeq(d, 1, Len(d) - 1)) * 10 + DigitValue[d[Len(d)]]

parseFloat(s) ==
    LET neg == s # <<>> /\ Head(s) = "-"
        body == IF neg THEN Tail(s) ELSE s
        int == LeadingDigits(body)
        rest == SubSeq(body, Len(int) + 1, Len(body))
        frac == IF rest # <<>> /\ Head(rest) = "." THEN LeadingDigits(Tail(rest)) ELSE <<>>
        frac4 == SubSeq(frac \o <<"0", "0", "0", "0">>, 1, 4)
        mag == DigitsValue(int) * CoordScale + DigitsValue(frac4)
    IN  IF int = <<>> /\ frac = <<>> THEN NaN
        ELSE Num(IF neg THEN 0 - mag ELSE mag)

\* The providers, in the order geocodeLocation tries them.
Providers == <<"google", "mapbox", "osm">>
Rank(p) == CHOOSE i \in 1..Len(Providers) : Providers[i] = p

ProviderName(p) ==
    CASE p = "google" -> "google_maps"
      [] p = "mapbox" -> "mapbox"
      [] p = "osm" -> "openstreetmap"

\* `geocode_google_${Buffer.from(locationName).toString('base64')}` etc.
GeocodeKey(p, locationName) ==
    "geocode_" \o p \o "_" \o Base64(Utf8(locationName.units))

\* if (process.env.GOOGLE_MAPS_API_KEY) / if (process.env.MAPBOX_ACCESS_TOKEN);
\* OpenStreetMap needs no credential.
Configured(p) == p = "osm" \/ env[p]

\* (variants: every provider is tried, whatever is configured; Mapbox is
\* tried before Google Maps)
Chain_all == Providers
Chain_swapped == SelectSeq(<<"mapbox", "google", "osm">>, Configured)

\* The providers geocodeLocation tries, in order.
Chain == SelectSeq(Providers, Configured)

\* The providers geocodeLocation tries after p has failed.
After(p) == SelectSeq(Chain, LAMBDA q : Rank(q) > Rank(p))

\* What the providers may answer.
GoogleBodies ==
    {[status |-> "OK",
      results |-> <<[lat |-> Num(407128), lng |-> Num(-740060),
                     formatted_address |-> "New York, NY, USA",
                     location_type |-> "ROOFTOP"]>>],
     [status |-> "OK",
      results |-> <<[lat |-> Num(407000), lng |-> Num(-740000),
                     formatted_address |-> "New York, USA",
                     location_type |-> "APPROXIMATE"]>>],
     [status |-> "ZERO_RESULTS", results |-> <<>>]}

\* relevance and importance in hundredths
MapboxBodies ==
    {[features |-> <<[center |-> <<Num(-740060), Num(407128)>>,
                      place_name |-> "New York, New York, United States",
                      relevance |-> 90]>>],
     [features |-> <<[center |-> <<Num(-740000), Num(407000)>>,
                      place_name |-> "New York, United States",
                      relevance |-> 80]>>],
     [features |-> <<>>]}

OsmBodies ==
    {<<[lat |-> <<"4", "0", ".", "7", "1", "2", "8">>,
        lon |-> <<"-", "7", "4", ".", "0", "0", "6">>,
        display_name |-> "City of New York, United States",
        importance |-> 90]>>,
     <<[lat |-> <<"4", "0", ".", "7">>,
        lon |-> <<"-", "7", "4">>,
        display_name |-> "New York, United States",
        importance |-> 50]>>,
     <<>>}

Bodies(p) ==
    CASE p = "google" -> GoogleBodies
      [] p = "mapbox" -> MapboxBodies
      [] p = "osm" -> OsmBodies

\* The answers a geocodeWith... function throws on.
Rejected(p, body) ==
    CASE p = "google" -> body.status # "OK" \/ Len(body.results) = 0
      [] p = "mapbox" -> Len(body.features) = 0
      [] p = "osm" -> Len(body) = 0

MapboxHighRelevance == 80
OsmHighImportance == 50

\* geocodeData of the three geocodeWith... functions
GeocodeData(p, locationName, body, t) ==
    CASE p = "google" ->
           LET result == body.results[1]
           IN  [locationName |-> locationName,
                latitude |-> result.lat, longitude |-> result.lng,
                formattedAddress |-> result.formatted_address,
                confidence |-> IF result.location_type = "ROOFTOP" THEN "high" ELSE "medium",
                provider |-> "google_maps", error |-> Null,
                timestamp |-> toISOString(t)]
      [] p = "mapbox" ->
           LET result == body.features[1]
           IN  [locationName |-> locationName,
                latitude |-> result.center[2], longitude |-> result.center[1],
                formattedAddress |-> result.place_name,
                confidence |-> IF result.relevance > MapboxHighRelevance THEN "high" ELSE "medium",
                provider |-> "mapbox", error |-> Null,
                timestamp |-> toISOString(t)]
      [] p = "osm" ->
           LET result == body[1]
           IN  [locationName |-> locationName,
                latitude |-> parseFloat(result.lat), longitude |-> parseFloat(result.lon),
                formattedAddress |-> result.display_name,
                confidence |-> IF result.importance > OsmHighImportance THEN "high" ELSE "medium",
                provider |-> "openstreetmap", error |-> Null,
                timestamp |-> toISOString(t)]

\* (variant: one hour)
GeocodeTtl_hour == 60 * 60

GeocodeTtl == 86400
MockLat == 407128
MockLon == -740060
JitterSpan == 1000

\* (Math.random() - 0.5) * 0.1: from -0.05 up to, not including, 0.05
Jitters == {0 - (JitterSpan \div 2), 0, (JitterSpan \div 2) - 1}

\* `${locationName}`: the code units of a string; "undefined" for undefined.
TemplateString(x) ==
    IF x.type = "string" THEN x.units
    ELSE <<117, 110, 100, 101, 102, 105, 110, 101, 100>>

\* " (Mock Location)" in code units
MockSuffix == <<32, 40, 77, 111, 99, 107, 32, 76, 111, 99, 97, 116, 105, 111, 110, 41>>

\* The mock record of geocodeLocation's catch block.
MockData(locationName, jlat, jlon, t) ==
    [locationName |-> locationName,
     latitude |-> Num(MockLat + jlat), longitude |-> Num(MockLon + jlon),
     formattedAddress |-> Str(TemplateString(locationName) \o MockSuffix),
     confidence |-> "low", provider |-> "mock",
     error |-> Some("All geocoding providers failed"),
     timestamp |-> toISOString(t)]

NoGFrame ==
    [location |-> Undefined, provider |-> "", contacted |-> <<>>, failed |-> <<>>,
     data |-> Null, forced |-> FALSE]

\* How a geocodeLocation call ended: the record returned, where it came from
\* ("cache", "fetched", "mock"), the providers contacted over the network and
\* the providers whose geocodeWith... call threw, both in order.
NoGRet ==
    [kind |-> "none", result |-> Null, via |-> "none", location |-> Undefined,
     contacted |-> <<>>, failed |-> <<>>, forced |-> FALSE]

GReturn(f, data, via) ==
    [kind |-> "return", result |-> Some(data), via |-> via, location |-> f.location,
     contacted |-> f.contacted, failed |-> f.failed, forced |-> f.forced]

GThrow(f) ==
    [kind |-> "throw", result |-> Null, via |-> "none", location |-> f.location,
     contacted |-> f.contacted, failed |-> f.failed, forced |-> f.forced]

\* (variant: the catch block rethrows)
geocodeLocation_rethrow(f, jlat, jlon, t) == GThrow(f)

\* geocodeLocation: catch (error) { ...; return { ..., provider: 'mock', ... } }
geocodeLocation_catch(f, jlat, jlon, t) ==
    GReturn(f, MockData(f.location, jlat, jlon, t), "mock")

\* (variant: the cache is not asked)
BeginProvider_nolookup(r, f, p) ==
    /\ gpc' = [gpc EXCEPT ![r] = "cache_get"]
    /\ gframe' = [gframe EXCEPT ![r] = [f EXCEPT !.provider = p]]
    /\ ret' = [ret EXCEPT ![r] = NoRet]
    /\ UNCHANGED <<cpc, frame, gret>>

\* geocodeWith...(locationName) begins: the cache is asked first.
BeginProvider(r, f, p) ==
    /\ gpc' = [gpc EXCEPT ![r] = "cache_get"]
    /\ gframe' = [gframe EXCEPT ![r] = [f EXCEPT !.provider = p]]
    /\ getFromCache(r, GeocodeKey(p, f.location))
    /\ UNCHANGED gret

\* geocodeWith... of provider f.provider has thrown (its catch block logs and
\* rethrows): a caller that called it directly gets the exception;
\* geocodeLocation goes on to the next provider, or from the last one to its
\* catch block.
\* (variant: the mock record is written to the cache, like a provider's)
ProviderFailed_remembered(r, f0) ==
    LET f == [f0 EXCEPT !.failed = Append(@, f0.provider)]
    IN  IF f.forced
        THEN /\ gret' = [gret EXCEPT ![r] = GThrow(f)]
             /\ gpc' = [gpc EXCEPT ![r] = "idle"]
             /\ gframe' = [gframe EXCEPT ![r] = NoGFrame]
             /\ UNCHANGED <<cpc, frame, ret>>
        ELSE IF After(f.provider) # <<>>
        THEN BeginProvider(r, f, Head(After(f.provider)))
        ELSE \E jlat, jlon \in Jitters :
                LET data == MockData(f.location, jlat, jlon, now)
                IN  /\ gpc' = [gpc EXCEPT ![r] = "cache_set"]
                    /\ gframe' = [gframe EXCEPT ![r] = [f EXCEPT !.data = Some(data)]]
                    /\ setCache(r, GeocodeKey(f.provider, f.location), data, GeocodeTtl)
                    /\ UNCHANGED gret

ProviderFailed(r, f0) ==
    LET f == [f0 EXCEPT !.failed = Append(@, f0.provider)]
    IN  IF f.forced
        THEN /\ gret' = [gret EXCEPT ![r] = GThrow(f)]
             /\ gpc' = [gpc EXCEPT ![r] = "idle"]
             /\ gframe' = [gframe EXCEPT ![r] = NoGFrame]
             /\ UNCHANGED <<cpc, frame, ret>>
        ELSE IF After(f.provider) # <<>>
        THEN BeginProvider(r, f, Head(After(f.provider)))
        ELSE /\ \E jlat, jlon \in Jitters :
                  gret' = [gret EXCEPT ![r] = geocodeLocation_catch(f, jlat, jlon, now)]
             /\ gpc' = [gpc EXCEPT ![r] = "idle"]
             /\ gframe' = [gframe EXCEPT ![r] = NoGFrame]
             /\ UNCHANGED <<cpc, frame, ret>>

\* The call of geocodeLocation(locationName).  Buffer.from throws on a value
\* that is no string, in each geocodeWith... in turn.
geocodeLocation_begin(r, locationName) ==
    /\ gpc[r] = "idle" /\ cpc[r] = "idle"
    /\ LET f == [NoGFrame EXCEPT !.location = locationName]
       IN  IF locationName.type = "string"
           THEN /\ BeginProvider(r, f, Head(Chain))
                /\ gret' = [gret EXCEPT ![r] = NoGRet]
           ELSE /\ \E jlat, jlon \in Jitters :
                     gret' = [gret EXCEPT ![r] =
                        geocodeLocation_catch([f EXCEPT !.failed = Chain], jlat, jlon, now)]
                /\ UNCHANGED <<gpc, gframe, cpc, frame, ret>>
    /\ seq' = (seq /\ \A q \in Requests \ {r} : gpc[q] = "idle")
    /\ UNCHANGED <<now, supabase, store, faulted, lastSet, env>>

\* A call of geocodeLocation(locationName) from outside the route handlers.
geocodeLocation(r, locationName) ==
    /\ calls < MaxCalls
    /\ calls' = calls + 1
    /\ geocodeLocation_begin(r, locationName)
    /\ UNCHANGED appVars

\* getFromCache has returned: a hit is returned as it is; otherwise the
\* credential is checked and the request is sent, unless building its URL
\* throws.
geocodeWith_cached(r) ==
    /\ gpc[r] = "cache_get" /\ cpc[r] = "idle"
    /\ LET f == gframe[r]
           cached == ret[r].value
       IN  IF cached # Null
           THEN /\ gret' = [gret EXCEPT ![r] = GReturn(f, cached[1], "cache")]
                /\ gpc' = [gpc EXCEPT ![r] = "idle"]
                /\ gframe' = [gframe EXCEPT ![r] = NoGFrame]
                /\ UNCHANGED <<cpc, frame, ret>>
           ELSE IF ~Configured(f.provider) \/ ~WellFormed(f.location.units)
           THEN ProviderFailed(r, f)
           ELSE /\ gpc' = [gpc EXCEPT ![r] = "http"]
                /\ gframe' = [gframe EXCEPT ![r] = [f EXCEPT !.contacted = Append(@, f.provider)]]
                /\ UNCHANGED <<cpc, frame, ret, gret>>
    /\ UNCHANGED <<now, supabase, store, seq, faulted, lastSet, calls, env, appVars>>

\* The provider answers, or the request fails; a usable answer is written to
\* the cache for 24 hours.
geocodeWith_response(r) ==
    /\ gpc[r] = "http"
    /\ LET f == gframe[r]
       IN  \/ ProviderFailed(r, f)
           \/ \E body \in Bodies(f.provider) :
                IF Rejected(f.provider, body)
                THEN ProviderFailed(r, f)
                ELSE LET data == GeocodeData(f.provider, f.location, body, now)
                     IN  /\ gpc' = [gpc EXCEPT ![r] = "cache_set"]
                         /\ gframe' = [gframe EXCEPT ![r] = [f EXCEPT !.data = Some(data)]]
                         /\ setCache(r, GeocodeKey(f.provider, f.location), data, GeocodeTtl)
                         /\ UNCHANGED gret
    /\ UNCHANGED <<now, supabase, store, seq, faulted, lastSet, calls, env, appVars>>

\* setCache has returned: geocodeWith... returns geocodeData.
geocodeWith_return(r) ==
    /\ gpc[r] = "cache_set" /\ cpc[r] = "idle"
    /\ gret' = [gret EXCEPT ![r] = GReturn(gframe[r], gframe[r].data[1], "fetched")]
    /\ gpc' = [gpc EXCEPT ![r] = "idle"]
    /\ gframe' = [gframe EXCEPT ![r] = NoGFrame]
    /\ UNCHANGED <<now, supabase, store, cpc, frame, ret, seq, faulted, lastSet, calls, env, appVars>>

\* ------------------------------------------- POST /api/geocoding/geocode
\* String.prototype.toLowerCase, on code units (the ASCII letters)
toLowerCase(units) ==
    [i \in 1..Len(units) |->
        IF units[i] >= 65 /\ units[i] <= 90 THEN units[i] + 32 ELSE units[i]]

\* if (x): a value of the request body is truthy when it is a non-empty string
\* (undefined and '' are not).
Truthy(x) == x.type = "string" /\ x.units # <<>>

\* The provider names of the switch: 'google', 'mapbox', 'osm',
\* 'openstreetmap', in code units.
RouteProvider(name) ==
    CASE name = <<103, 111, 111, 103, 108, 101>> -> "google"
      [] name = <<109, 97, 112, 98, 111, 120>> -> "mapbox"
      [] name = <<111, 115, 109>> -> "osm"
      [] name = <<111, 112, 101, 110, 115, 116, 114, 101, 101, 116, 109, 97, 112>> -> "osm"
      [] OTHER -> ""

\* A direct call of geocodeWithGoogleMaps / geocodeWithMapbox / geocodeWithOSM
\* (locationName), as the route makes it for a requested provider.
geocodeWith(r, p, locationName) ==
    /\ gpc[r] = "idle" /\ cpc[r] = "idle"
    /\ calls < MaxCalls
    /\ calls' = calls + 1
    /\ LET f == [NoGFrame EXCEPT !.location = locationName, !.forced = TRUE]
       IN  IF locationName.type = "string"
           THEN /\ BeginProvider(r, f, p)
                /\ gret' = [gret EXCEPT ![r] = NoGRet]
           ELSE /\ gret' = [gret EXCEPT ![r] = GThrow([f EXCEPT !.failed = <<p>>])]
                /\ UNCHANGED <<gpc, gframe, cpc, frame, ret>>
    /\ seq' = (seq /\ \A q \in Requests \ {r} : gpc[q] = "idle")
    /\ UNCHANGED <<now, supabase, store, faulted, lastSet, env, appVars>>

\* return res.status(400).json(...): the request ends before any service call.
BadRequest(r, location_name) ==
    /\ gpc[r] = "idle" /\ cpc[r] = "idle"
    /\ calls < MaxCalls
    /\ calls' = calls + 1
    /\ gret' = [gret EXCEPT ![r] = [NoGRet EXCEPT !.kind = "invalid",
                                                  !.location = location_name]]
    /\ UNCHANGED <<now, supabase, store, cpc, frame, ret, seq, faulted, lastSet,
                   env, gpc, gframe, appVars>>

\* router.post('/geocode'): the handler up to its first await.
PostGeocode(r, location_name, provider) ==
    IF ~Truthy(location_name)
    THEN BadRequest(r, location_name)
    ELSE IF Truthy(provider)
    THEN LET p == RouteProvider(toLowerCase(provider.units))
         IN  IF p = "" THEN BadRequest(r, location_name)
             ELSE geocodeWith(r, p, location_name)
    ELSE geocodeLocation(r, location_name)

\* What the route answers once the service call has ended: res.json of the
\* result, or 500 from the catch block; 400 from the early returns; status 0
\* while no answer has been sent.
Response(r) ==
    CASE gret[r].kind = "return" -> [status |-> 200, body |-> gret[r].result]
      [] gret[r].kind = "throw" -> [status |-> 500, body |-> Null]
      [] gret[r].kind = "invalid" -> [status |-> 400, body |-> Null]
      [] OTHER -> [status |-> 0, body |-> Null]

\* ------------------------------------------------ strings of the requests
\* The printable ASCII characters, from code unit 32 (space) to 126 (~); the
\* backquote (96), which a string here cannot hold, is spelled U+0060.
Ascii ==
    <<" ", "!", "\"", "#", "$", "%", "&", "'", "(", ")", "*", "+",
      ",", "-", ".", "/", "0", "1", "2", "3", "4", "5", "6", "7",
      "8", "9", ":", ";", "<", "=", ">", "?", "@", "A", "B", "C",
      "D", "E", "F", "G", "H", "I", "J", "K", "L", "M", "N", "O",
      "P", "Q", "R", "S", "T", "U", "V", "W", "X", "Y", "Z", "[",
      "\\", "]", "^", "_", "U+0060", "a", "b", "c", "d", "e", "f", "g",
      "h", "i", "j", "k", "l", "m", "n", "o", "p", "q", "r", "s",
      "t", "u", "v", "w", "x", "y", "z", "{", "|", "}", "~">>

\* The text of a string of ASCII code units (the ${x} of a template literal).
RECURSIVE FromUnits(_)
FromUnits(units) ==
    IF units = <<>> THEN "" ELSE Ascii[units[1] - 31] \o FromUnits(Tail(units))

\* White space, as \s and String.prototype.trim see it.
IsSpace(u) ==
    u \in {9, 10, 11, 12, 13, 32, 160, 5760, 8232, 8233, 8239, 8287, 12288, 65279}
       \cup 8192..8202

\* String.prototype.split(sep), sep one code unit
RECURSIVE Split(_, _)
Split(units, sep) ==
    LET at == {i \in 1..Len(units) : units[i] = sep}
    IN  IF at = {} THEN <<units>>
        ELSE LET i == CHOOSE j \in at : \A k \in at : j <= k
             IN  <<SubSeq(units, 1, i - 1)>> \o Split(SubSeq(units, i + 1, Len(units)), sep)

\* String.prototype.trim
RECURSIVE Trim(_)
Trim(units) ==
    IF units = <<>> THEN <<>>
    ELSE IF IsSpace(units[1]) THEN Trim(Tail(units))
    ELSE IF IsSpace(units[Len(units)]) THEN Trim(SubSeq(units, 1, Len(units) - 1))
    ELSE units

\* .replace(/\s+/g, '_')
RECURSIVE ReplaceSpaces(_)
ReplaceSpaces(units) ==
    IF units = <<>> THEN <<>>
    ELSE IF ~IsSpace(units[1]) THEN <<units[1]>> \o ReplaceSpaces(Tail(units))
    ELSE IF Len(units) > 1 /\ IsSpace(units[2]) THEN ReplaceSpaces(Tail(units))
    ELSE <<95>> \o ReplaceSpaces(Tail(units))

\* Array.prototype.join(sep) of strings, sep one code unit
RECURSIVE Join(_, _)
Join(list, sep) ==
    IF list = <<>> THEN <<>>
    ELSE IF Len(list) = 1 THEN list[1]
    ELSE list[1] \o <<sep>> \o Join(Tail(list), sep)

\* The decimal digits at the head of a string, and their value.
RECURSIVE DigitUnits(_)
DigitUnits(units) ==
    IF units = <<>> \/ units[1] < 48 \/ units[1] > 57 THEN <<>>
    ELSE <<units[1]>> \o DigitUnits(Tail(units))

RECURSIVE UnitsValue(_)
UnitsValue(d) ==
    IF d = <<>> THEN 0
    ELSE UnitsValue(SubSeq(d, 1, Len(d) - 1)) * 10 + (d[Len(d)] - 48)

\* Leading white space dropped (parseInt does not look at what follows the
\* digits).
RECURSIVE TrimStart(_)
TrimStart(units) ==
    IF units # <<>> /\ IsSpace(units[1]) THEN TrimStart(Tail(units)) ELSE units

\* parseInt(x) of a number that is an integer, of a string (white space, a
\* sign, decimal digits; anything after them is ignored) or of undefined.
parseInt(x) ==
    IF "t" \in DOMAIN x THEN x
    ELSE IF x.type # "string" THEN NaN
    ELSE LET body == TrimStart(x.units)
             neg == body # <<>> /\ body[1] = 45
             signed == body # <<>> /\ body[1] \in {43, 45}
             digits == DigitUnits(IF signed THEN Tail(body) ELSE body)
         IN  IF digits = <<>> THEN NaN
             ELSE Num(IF neg THEN 0 - UnitsValue(digits) ELSE UnitsValue(digits))

\* Array.prototype.slice(start, end): NaN counts as 0, a negative index counts
\* from the end.
Slice(list, start, end) ==
    LET len == Len(list)
        rel(i) == IF ~IsNumeric(i) THEN 0 ELSE i.v
        clamp(i) == IF i < 0 THEN (IF len + i < 0 THEN 0 ELSE len + i)
                    ELSE (IF i > len THEN len ELSE i)
        k == clamp(rel(start))
        final == clamp(rel(end))
    IN  IF final > k THEN SubSeq(list, k + 1, final) ELSE <<>>

\* a + b of two numbers
Plus(a, b) == IF IsNumeric(a) /\ IsNumeric(b) THEN Num(a.v + b.v) ELSE NaN

\* Array.prototype.filter
Filter(list, keep(_)) ==
    LET kept[i \in 0..Len(list)] ==
            IF i = 0 THEN <<>>
            ELSE IF keep(list[i]) THEN Append(kept[i - 1], list[i])
            ELSE kept[i - 1]
    IN  kept[Len(list)]

\* ------------------------------------------------------ official updates
\* getMockOfficialUpdates at clock t: the five updates (their content, url and
\* tags, which nothing reads, are left out).
MinuteMs == 60 * MsPerSec

getMockOfficialUpdates(t) ==
    <<[id |-> "fema_001", source |-> <<70, 69, 77, 65>>,
       title |-> "Major Disaster Declaration for New York Flooding",
       published_at |-> toISOString(t - 120 * MinuteMs),
       type |-> "government", priority |-> "high"],
      \* 'American Red Cross'
      [id |-> "redcross_001",
       source |-> <<65, 109, 101, 114, 105, 99, 97, 110, 32,
                    82, 101, 100, 32, 67, 114, 111, 115, 115>>,
       title |-> "Emergency Shelters Open in NYC Area",
       published_at |-> toISOString(t - 90 * MinuteMs),
       type |-> "relief_organization", priority |-> "high"],
      \* 'NYC Emergency Management'
      [id |-> "nyc_em_001",
       source |-> <<78, 89, 67, 32, 69, 109, 101, 114, 103, 101, 110, 99,
                    121, 32, 77, 97, 110, 97, 103, 101, 109, 101, 110, 116>>,
       title |-> "Flash Flood Warning Extended Until 8 PM",
       published_at |-> toISOString(t - 30 * MinuteMs),
       type |-> "local_government", priority |-> "critical"],
      [id |-> "fema_002", source |-> <<70, 69, 77, 65>>,
       title |-> "Individual Assistance Program Activated",
       published_at |-> toISOString(t - 45 * MinuteMs),
       type |-> "government", priority |-> "medium"],
      \* 'Salvation Army'
      [id |-> "salvation_army_001",
       source |-> <<83, 97, 108, 118, 97, 116, 105, 111, 110, 32, 65, 114, 109, 121>>,
       title |-> "Mobile Emergency Response Units Deployed",
       published_at |-> toISOString(t - 60 * MinuteMs),
       type |-> "relief_organization", priority |-> "medium"]>>

\* const priorityOrder = { critical: 3, high: 2, medium: 1, low: 0 };
\* priorityOrder[p] is undefined for any other p
priorityOrder == [critical |-> 3, high |-> 2, medium |-> 1, low |-> 0]

UndefinedNumber == [t |-> "undefined", v |-> 0]

PriorityLevel(p) ==
    IF p \in DOMAIN priorityOrder THEN Num(priorityOrder[p]) ELSE UndefinedNumber

\* a - b: NaN when an operand is undefined or NaN
Minus(a, b) == IF IsNumeric(a) /\ IsNumeric(b) THEN Num(a.v - b.v) ELSE NaN

\* (variant: oldest first within a priority)
SortCompare_oldestFirst(a, b) ==
    IF PriorityLevel(a.priority) # PriorityLevel(b.priority)
    THEN Minus(PriorityLevel(b.priority), PriorityLevel(a.priority))
    ELSE Num(ParseDate(a.published_at) - ParseDate(b.published_at))

\* The comparator of the sort in fetchOfficialUpdates.
SortCompare(a, b) ==
    IF PriorityLevel(a.priority) # PriorityLevel(b.priority)
    THEN Minus(PriorityLevel(b.priority), PriorityLevel(a.priority))
    ELSE Num(ParseDate(b.published_at) - ParseDate(a.published_at))

\* Array.prototype.sort(compare): a stable sort; x goes before the first
\* element that compares greater than it (a NaN result counts as 0).
RECURSIVE InsertSorted(_, _)
InsertSorted(sorted, x) ==
    IF sorted = <<>> THEN <<x>>
    ELSE LET c == SortCompare(sorted[1], x)
         IN  IF IsNumeric(c) /\ c.v > 0 THEN <<x>> \o sorted
             ELSE <<sorted[1]>> \o InsertSorted(Tail(sorted), x)

RECURSIVE Sort(_)
Sort(list) ==
    IF list = <<>> THEN <<>>
    ELSE InsertSorted(Sort(SubSeq(list, 1, Len(list) - 1)), list[Len(list)])

\* update.source.toLowerCase().replace(/\s+/g, '_')
SourceSlug(update) == ReplaceSpaces(toLowerCase(update.source))

\* `official_updates_${disasterId}_${sources.join('_')}`
UpdatesKey(disasterId, sources) ==
    "official_updates_" \o FromUnits(disasterId) \o "_" \o FromUnits(Join(sources, 95))

UpdatesTtl == 600

\* `social_media_${disasterId}_${keywords.join('_')}`
SocialKey(disasterId, keywords) ==
    "social_media_" \o FromUnits(disasterId) \o "_" \o FromUnits(Join(keywords, 95))

\* The result fetchOfficialUpdates builds on a cache miss, at clock t.
UpdatesResult(disasterId, sources, t) ==
    LET mockUpdates == getMockOfficialUpdates(t)
        wanted(update) == \E i \in 1..Len(sources) : sources[i] = SourceSlug(update)
        filteredUpdates == IF Len(sources) > 0 THEN Filter(mockUpdates, wanted)
                           ELSE mockUpdates
        sortedUpdates == Sort(filteredUpdates)
        critical(update) == update.priority = "critical"
    IN  [disaster_id |-> disasterId, sources_requested |-> sources,
         updates |-> sortedUpdates, total_updates |-> Len(sortedUpdates),
         critical_updates |-> Len(Filter(sortedUpdates, critical)),
         last_updated |-> toISOString(t), provider |-> "mock_scraper"]

\* filterUpdatesByPriority(updates, minPriority)
filterUpdatesByPriority(updates, minPriority) ==
    LET level == PriorityLevel(minPriority)
        minLevel == IF IsNumeric(level) /\ level.v # 0 THEN level.v ELSE 1
        keep(update) ==
            LET l == PriorityLevel(update.priority)
            IN  IsNumeric(l) /\ l.v >= minLevel
    IN  Filter(updates, keep)

\* filterUpdatesByType(updates, types)
filterUpdatesByType(updates, types) ==
    LET keep(update) == \E i \in 1..Len(types) : FromUnits(types[i]) = update.type
    IN  IF Len(types) = 0 THEN updates ELSE Filter(updates, keep)

NoUFrame ==
    [disaster_id |-> <<>>, sourcesList |-> <<>>, priority |-> Undefined,
     type |-> Undefined, limit |-> Num(20), offset |-> Num(0), result |-> Null]

NoURet == [kind |-> "none", via |-> "none", data |-> Null]

NoUResp == [status |-> 0, body |-> Null, filtered |-> <<>>]

\* router.get('/:disaster_id'), from the return of fetchOfficialUpdates to
\* res.json: the priority filter, the type filter, the slice.  filtered is the
\* list the page was cut from (the response carries only its length).
UpdatesResponse(f, updatesData) ==
    LET byPriority == IF Truthy(f.priority)
                      THEN filterUpdatesByPriority(updatesData.updates,
                                                   FromUnits(f.priority.units))
                      ELSE updatesData.updates
        typesList == IF Truthy(f.type)
                     THEN [i \in 1..Len(Split(f.type.units, 44)) |->
                             Trim(Split(f.type.units, 44)[i])]
                     ELSE <<>>
        filteredUpdates == IF Truthy(f.type) THEN filterUpdatesByType(byPriority, typesList)
                           ELSE byPriority
        startIndex == parseInt(f.offset)
        endIndex == Plus(startIndex, parseInt(f.limit))
    IN  [status |-> 200,
         body |-> Some([disaster_id |-> f.disaster_id,
                        updates |-> Slice(filteredUpdates, startIndex, endIndex),
                        pagination |->
                          [total |-> Len(filteredUpdates), offset |-> startIndex,
                           limit |-> parseInt(f.limit),
                           has_more |-> (IsNumeric(endIndex)
                                           /\ endIndex.v < Len(filteredUpdates))],
                        summary |->
                          [total_updates |-> updatesData.total_updates,
                           critical_updates |-> updatesData.critical_updates,
                           filtered_updates |-> Len(filteredUpdates)],
                        filters |->
                          [sources |-> f.sourcesList, priority |-> f.priority,
                           type |-> IF Truthy(f.type) THEN Some(Split(f.type.units, 44))
                                    ELSE Null],
                        last_updated |-> updatesData.last_updated,
                        provider |-> updatesData.provider]),
         filtered |-> filteredUpdates]

\* GET /api/official-updates/:disaster_id with query q: the handler up to the
\* await of getFromCache inside fetchOfficialUpdates.  limit and offset
\* default to 20 and 0 when the query has none.
GetOfficialUpdates(u, disaster_id, q) ==
    /\ upc[u] = "idle" /\ cpc[u] = "idle"
    /\ calls < MaxUpdateCalls
    /\ calls' = calls + 1
    /\ LET sourcesList ==
              IF Truthy(q.sources)
              THEN [i \in 1..Len(Split(q.sources.units, 44)) |->
                      toLowerCase(Trim(Split(q.sources.units, 44)[i]))]
              ELSE <<>>
           f == [NoUFrame EXCEPT !.disaster_id = disaster_id,
                                 !.sourcesList = sourcesList,
                                 !.priority = q.priority, !.type = q.type,
                                 !.limit = IF q.limit = Undefined THEN Num(20) ELSE q.limit,
                                 !.offset = IF q.offset = Undefined THEN Num(0) ELSE q.offset]
       IN  /\ uframe' = [uframe EXCEPT ![u] = f]
           /\ getFromCache(u, UpdatesKey(disaster_id, sourcesList))
    /\ upc' = [upc EXCEPT ![u] = "cache_get"]
    /\ uret' = [uret EXCEPT ![u] = NoURet]
    /\ uresp' = [uresp EXCEPT ![u] = NoUResp]
    /\ UNCHANGED <<now, supabase, store, seq, faulted, lastSet, geoVars,
                   scoreVars, extVars, scrapeVars, valVars>>

\* getFromCache has returned: a hit is returned as it is and the handler
\* answers; on a miss the result is built and written to the cache.
fetchOfficialUpdates_cached(u) ==
    /\ upc[u] = "cache_get" /\ cpc[u] = "idle"
    /\ LET f == uframe[u]
           cached == ret[u].value
       IN  IF cached # Null
           THEN /\ uret' = [uret EXCEPT ![u] =
                              [kind |-> "return", via |-> "cache", data |-> cached]]
                /\ uresp' = [uresp EXCEPT ![u] = UpdatesResponse(f, cached[1])]
                /\ upc' = [upc EXCEPT ![u] = "idle"]
                /\ uframe' = [uframe EXCEPT ![u] = NoUFrame]
                /\ UNCHANGED <<cpc, frame, ret>>
           ELSE LET result == UpdatesResult(f.disaster_id, f.sourcesList, now)
                IN  /\ upc' = [upc EXCEPT ![u] = "cache_set"]
                    /\ uframe' = [uframe EXCEPT ![u] = [f EXCEPT !.result = Some(result)]]
                    /\ setCache(u, UpdatesKey(f.disaster_id, f.sourcesList), result,
                                UpdatesTtl)
                    /\ UNCHANGED <<uret, uresp>>
    /\ UNCHANGED <<now, supabase, store, seq, faulted, lastSet, calls, geoVars,
                   scoreVars, extVars, scrapeVars, valVars>>

\* setCache has returned: fetchOfficialUpdates returns the result and the
\* handler answers.
fetchOfficialUpdates_return(u) ==
    /\ upc[u] = "cache_set" /\ cpc[u] = "idle"
    /\ uret' = [uret EXCEPT ![u] =
                  [kind |-> "return", via |-> "fetched", data |-> uframe[u].result]]
    /\ uresp' = [uresp EXCEPT ![u] = UpdatesResponse(uframe[u], uframe[u].result[1])]
    /\ upc' = [upc EXCEPT ![u] = "idle"]
    /\ uframe' = [uframe EXCEPT ![u] = NoUFrame]
    /\ UNCHANGED <<now, supabase, store, cpc, frame, ret, seq, faulted, lastSet, calls,
                   geoVars,
                   scoreVars, extVars, scrapeVars, valVars>>

\* -------------------------------------------------- social media priority
\* haystack.includes(needle)
Includes(haystack, needle) ==
    \E i \in 1..(Len(haystack) + 1) :
        /\ i + Len(needle) - 1 <= Len(haystack)
        /\ SubSeq(haystack, i, i + Len(needle) - 1) = needle

\* const urgentKeywords = ['SOS', 'urgent', 'emergency', 'help', 'rescue', 'trapped'];
urgentKeywords ==
    <<<<83, 79, 83>>, <<117, 114, 103, 101, 110, 116>>,
      <<101, 109, 101, 114, 103, 101, 110, 99, 121>>, <<104, 101, 108, 112>>,
      <<114, 101, 115, 99, 117, 101>>, <<116, 114, 97, 112, 112, 101, 100>>>>

\* calculatePriority before the cap: the base priority, the urgency level, the
\* content type, the keywords found, the engagement.
PriorityScore(post, analysis) ==
    LET base == 5
        urgency == CASE analysis.urgency = "critical" -> 4
                     [] analysis.urgency = "high" -> 3
                     [] analysis.urgency = "medium" -> 2
                     [] analysis.urgency = "low" -> 1
                     [] OTHER -> 0
        helpRequest == IF analysis.contentType = "help_request" THEN 2 ELSE 0
        emergencyAlert == IF analysis.contentType = "emergency_alert" THEN 3 ELSE 0
        urgentMatches ==
            Cardinality({k \in 1..Len(urgentKeywords) :
                           Includes(toLowerCase(post.content), toLowerCase(urgentKeywords[k]))})
        totalEngagement ==
            post.engagement.likes + post.engagement.retweets + post.engagement.replies
        over50 == IF totalEngagement > 50 THEN 1 ELSE 0
        over100 == IF totalEngagement > 100 THEN 1 ELSE 0
    IN  base + urgency + helpRequest + emergencyAlert + urgentMatches + over50 + over100

\* (variant: no cap)
calculatePriority_uncapped(post, analysis) == PriorityScore(post, analysis)

PriorityCap == 10

\* calculatePriority(post, analysis): return Math.min(priority, 10);
calculatePriority(post, analysis) ==
    IF PriorityScore(post, analysis) < PriorityCap THEN PriorityScore(post, analysis)
    ELSE PriorityCap

NoScoreIn ==
    [post |-> [content |-> <<>>, engagement |-> [likes |-> 0, retweets |-> 0, replies |-> 0]],
     analysis |-> [urgency |-> "low", contentType |-> "information"]]

\* The call of calculatePriority on the post and analysis at hand.
CalculatePriority ==
    /\ scoreOut = Null
    /\ scoreOut' = Some(calculatePriority(scoreIn.post, scoreIn.analysis))
    /\ UNCHANGED <<now, supabase, store, cpc, frame, ret, seq, faulted, lastSet, calls,
                   geoVars, updVars, scoreIn, extVars, scrapeVars, valVars>>

\* ------------------------------------------------------- source scraping
\* static officialSources = [...] (the urls and selectors, which only axios and
\* cheerio read, are left out)
officialSources ==
    <<[name |-> <<70, 69, 77, 65>>, type |-> "government"],
      [name |-> <<82, 101, 100, 32, 67, 114, 111, 115, 115>>,
       type |-> "relief_organization"],
      \* 'NYC Emergency Management'
      [name |-> <<78, 89, 67, 32, 69, 109, 101, 114, 103, 101, 110, 99,
                  121, 32, 77, 97, 110, 97, 103, 101, 109, 101, 110, 116>>,
       type |-> "local_government"]>>

\* The call of scrapeOfficialSource on each source, in the order of the list.
ScraperOrder == <<"s1", "s2", "s3">>

SourceOf(s) == officialSources[CHOOSE i \in 1..Len(ScraperOrder) : ScraperOrder[i] = s]

\* `scrape_${source.name.toLowerCase().replace(/\s+/g, '_')}`
ScrapeKey(source) == "scrape_" \o FromUnits(ReplaceSpaces(toLowerCase(source.name)))

ScrapeTtl == 900

\* The elements the selector finds in a page become updates, those without a
\* title or without content are dropped; i counts all elements from 0.
ExtractUpdates(source, page, t) ==
    LET update(i) ==
            [id |-> FromUnits(toLowerCase(source.name)) \o "_" \o ToString(t) \o "_"
                      \o ToString(i - 1),
             source |-> source.name, title |-> Trim(page[i].title),
             content |-> Trim(page[i].content), published_at |-> toISOString(t),
             type |-> source.type, priority |-> "medium", tags |-> <<>>]
        kept[i \in 0..Len(page)] ==
            IF i = 0 THEN <<>>
            ELSE IF update(i).title # <<>> /\ update(i).content # <<>>
                 THEN Append(kept[i - 1], update(i))
            ELSE kept[i - 1]
    IN  kept[Len(page)]

ScrapeResult(source, updates, t) ==
    [source |-> source.name, updates |-> updates, error |-> "", scraped_at |-> toISOString(t)]

\* (variant: the catch block returns nothing)
scrapeOfficialSource_noreturn(source, message, t) == Null

\* scrapeOfficialSource: catch (error) { ...; return { source, url, updates: [],
\* error: error.message, scraped_at }; }
scrapeOfficialSource_catch(source, message, t) ==
    Some([source |-> source.name, updates |-> <<>>, error |-> message,
          scraped_at |-> toISOString(t)])

\* A promise of scrapeOfficialSource: pending, or fulfilled with a value.
\* scraped is history: the updates the source gave when it succeeded (from its
\* page or from the cache), Null while it has not or when it failed.
NoSRes == [status |-> "pending", value |-> Null, scraped |-> Null]

Fulfilled(value, scraped) == [status |-> "fulfilled", value |-> value, scraped |-> scraped]

NoARet == [kind |-> "none", updates |-> <<>>]

\* What axios.get and cheerio.load can give: a page with its elements, a network
\* error, the 10 second timeout, a body that cheerio cannot load.
Element(title, content) == [title |-> title, content |-> content]

Pages ==
    {<<>>,
     <<Element(<<65, 108, 101, 114, 116>>, <<32, 70, 108, 111, 111, 100, 32>>)>>,
     <<Element(<<>>, <<116, 101, 120, 116>>), Element(<<65, 105, 100>>, <<79, 112, 101, 110>>)>>}

HttpAnswers ==
    {[kind |-> "ok", page |-> p] : p \in Pages}
        \cup {[kind |-> k, page |-> <<>>] : k \in {"network", "timeout", "unparsable"}}

\* scrapeAllOfficialSources: officialSources.map(source => scrapeOfficialSource(
\* source)) runs every call up to its first await, the getFromCache of its key;
\* then Promise.allSettled is awaited.
scrapeAllOfficialSources ==
    /\ apc = "idle"
    /\ \A s \in Scrapers : spc[s] = "idle" /\ cpc[s] = "idle"
    /\ calls < MaxScrapeCalls
    /\ calls' = calls + 1
    /\ LET f(s) == [NoFrame EXCEPT !.op = "get", !.key = ScrapeKey(SourceOf(s))]
       IN  IF ~supabase
           THEN /\ ret' = [p \in Callers |->
                             IF p \in Scrapers THEN Returned(f(p), Null, "demo") ELSE ret[p]]
                /\ UNCHANGED <<cpc, frame>>
           ELSE /\ cpc' = [p \in Callers |-> IF p \in Scrapers THEN "get_select" ELSE cpc[p]]
                /\ frame' = [p \in Callers |-> IF p \in Scrapers THEN f(p) ELSE frame[p]]
                /\ ret' = [p \in Callers |-> IF p \in Scrapers THEN NoRet ELSE ret[p]]
    /\ spc' = [s \in Scrapers |-> "cache_get"]
    /\ sres' = [s \in Scrapers |-> NoSRes]
    /\ apc' = "waiting"
    /\ aret' = NoARet
    /\ UNCHANGED <<now, supabase, store, seq, faulted, lastSet, geoVars, updVars, scoreVars, extVars,
                   valVars>>

\* getFromCache has returned: a cached result is returned as it is, otherwise
\* the request to the source goes out.
scrapeOfficialSource_cached(s) ==
    /\ spc[s] = "cache_get" /\ cpc[s] = "idle"
    /\ LET cached == ret[s].value
       IN  IF cached # Null
           THEN /\ sres' = [sres EXCEPT ![s] = Fulfilled(cached, Some(cached[1].updates))]
                /\ spc' = [spc EXCEPT ![s] = "done"]
           ELSE /\ spc' = [spc EXCEPT ![s] = "http"]
                /\ UNCHANGED sres
    /\ UNCHANGED <<now, supabase, store, cpc, frame, ret, seq, faulted, lastSet, calls,
                   geoVars, updVars, scoreVars, extVars, apc, aret, valVars>>

\* The source answers, or the request fails: a failure is caught and turned
\* into a result with no updates; a page is read and its result written to the
\* cache for 15 minutes.
scrapeOfficialSource_response(s) ==
    /\ spc[s] = "http"
    /\ \E answer \in HttpAnswers :
         IF answer.kind = "ok"
         THEN LET result == ScrapeResult(SourceOf(s),
                                         ExtractUpdates(SourceOf(s), answer.page, now), now)
              IN  /\ sres' = [sres EXCEPT ![s] =
                                [status |-> "pending", value |-> Some(result),
                                 scraped |-> Some(result.updates)]]
                  /\ spc' = [spc EXCEPT ![s] = "cache_set"]
                  /\ setCache(s, ScrapeKey(SourceOf(s)), result, ScrapeTtl)
         ELSE /\ sres' = [sres EXCEPT ![s] =
                            Fulfilled(scrapeOfficialSource_catch(SourceOf(s), answer.kind, now),
                                      Null)]
              /\ spc' = [spc EXCEPT ![s] = "done"]
              /\ UNCHANGED <<cpc, frame, ret>>
    /\ UNCHANGED <<now, supabase, store, seq, faulted, lastSet, calls, geoVars, updVars,
                   scoreVars, extVars, apc, aret, valVars>>

\* setCache has returned: scrapeOfficialSource returns the result.
scrapeOfficialSource_return(s) ==
    /\ spc[s] = "cache_set" /\ cpc[s] = "idle"
    /\ sres' = [sres EXCEPT ![s] = Fulfilled(sres[s].value, sres[s].scraped)]
    /\ spc' = [spc EXCEPT ![s] = "done"]
    /\ UNCHANGED <<now, supabase, store, cpc, frame, ret, seq, faulted, lastSet, calls,
                   geoVars, updVars, scoreVars, extVars, apc, aret, valVars>>

\* allUpdates.push(...result.value.updates) over the results in the order of
\* the sources
RECURSIVE CollectUpdates(_)
CollectUpdates(results) ==
    IF results = <<>> THEN <<>>
    ELSE results[1].value[1].updates \o CollectUpdates(Tail(results))

\* Promise.allSettled has resolved: every promise is settled.  The updates of
\* the fulfilled ones are collected; reading .updates of a value that is
\* undefined throws, and the catch block returns [].
scrapeAllOfficialSources_settled ==
    /\ apc = "waiting"
    /\ \A s \in Scrapers : spc[s] = "done"
    /\ LET results == [i \in 1..Len(ScraperOrder) |-> sres[ScraperOrder[i]]]
       IN  aret' = [kind |-> "return",
                    updates |-> IF \E i \in 1..Len(results) : results[i].value = Null
                                THEN <<>>
                                ELSE CollectUpdates(results)]
    /\ apc' = "idle"
    /\ spc' = [s \in Scrapers |-> "idle"]
    /\ UNCHANGED <<now, supabase, store, cpc, frame, ret, seq, faulted, lastSet, calls,
                   geoVars, updVars, scoreVars, extVars, sres, valVars>>

\* ------------------------------- POST /api/geocoding/reverse, /api/disasters
\* if (x) of a value of a JSON body: a number other than 0 and NaN, a non-empty
\* string.
TruthyValue(x) ==
    IF "t" \in DOMAIN x THEN x.t = "number" /\ x.v # 0 ELSE Truthy(x)

\* The characters of a string of code units, for parseFloat; a character
\* outside ASCII, which ends a number like any letter, is given as "?".
Chars(units) ==
    [i \in 1..Len(units) |->
        IF units[i] >= 32 /\ units[i] <= 126 THEN Ascii[units[i] - 31] ELSE "?"]

\* parseFloat(x) of a value of a JSON body: a number is itself; of a string,
\* leading white space and a plus sign are skipped and what follows the number
\* is ignored.
ParseFloatValue(x) ==
    IF "t" \in DOMAIN x THEN x
    ELSE IF x.type # "string" THEN NaN
    ELSE LET body == TrimStart(x.units)
             plus == body # <<>> /\ body[1] = 43
             rest == IF plus THEN Tail(body) ELSE body
         IN  IF plus /\ rest # <<>> /\ rest[1] \in {43, 45} THEN NaN
             ELSE parseFloat(Chars(rest))

\* The digits of a fraction, without the zeros at its end.
RECURSIVE FractionText(_, _)
FractionText(frac, unit) ==
    IF frac = 0 THEN ""
    ELSE ToString(frac \div unit) \o FractionText(frac % unit, unit \div 10)

\* `${x}` of a number
NumberText(x) ==
    IF ~IsNumeric(x) THEN "NaN"
    ELSE LET a == IF x.v < 0 THEN 0 - x.v ELSE x.v
         IN  (IF x.v < 0 THEN "-" ELSE "") \o ToString(a \div CoordScale)
               \o (IF a % CoordScale = 0 THEN ""
                   ELSE "." \o FractionText(a % CoordScale, CoordScale \div 10))

\* `reverse_geocode_${latitude}_${longitude}`
ReverseKey(latitude, longitude) ==
    "reverse_geocode_" \o NumberText(latitude) \o "_" \o NumberText(longitude)

ReverseTtl == 86400

MaxLatitude == 90
MaxLongitude == 180

\* answers is the history of a reverseGeocode call: the providers it has
\* contacted, in order, each with what it answered.
NoHFrame ==
    [latitude |-> NaN, longitude |-> NaN, result |-> Null,
     finalLocationName |-> Undefined, coordinates |-> Null, answers |-> <<>>,
     existing |-> Null]

NoHReq == [route |-> "none", id |-> 0, body |-> Null, n |-> 0]

NoHResp == [status |-> 0, error |-> "", body |-> Null]

\* res.status(status).json({ error }) / res.json(body)
Answer(status, error, body) == [status |-> status, error |-> error, body |-> body]

\* return res.status(400).json({ error }): the handler ends here.
Answer400(r, error) ==
    /\ hresp' = [hresp EXCEPT ![r] = Answer(400, error, Null)]
    /\ UNCHANGED <<hpc, hframe, cpc, frame, ret>>

\* What reverseGeocode returns from a provider's answer, and from its catch
\* block.
ReverseData(latitude, longitude, address, provider, t) ==
    [latitude |-> latitude, longitude |-> longitude, formattedAddress |-> address,
     provider |-> provider, error |-> Null, timestamp |-> toISOString(t)]

reverseGeocode_catch(latitude, longitude, message, t) ==
    [latitude |-> latitude, longitude |-> longitude,
     formattedAddress |-> "Unknown Location", provider |-> "none",
     error |-> Some(message), timestamp |-> toISOString(t)]

\* router.post('/reverse') with body { latitude, longitude }: the checks of the
\* handler, then reverseGeocode(lat, lon) up to its await of getFromCache.
PostReverse(r, body) ==
    /\ hpc[r] = "idle" /\ cpc[r] = "idle" /\ gpc[r] = "idle"
    /\ calls < MaxHandlerCalls
    /\ calls' = calls + 1
    /\ hreq' = [hreq EXCEPT ![r] = [route |-> "reverse", id |-> 0, body |-> Some(body),
                                      n |-> calls + 1]]
    /\ LET lat == ParseFloatValue(body.latitude)
           lon == ParseFloatValue(body.longitude)
       IN  IF ~TruthyValue(body.latitude) \/ ~TruthyValue(body.longitude)
           THEN Answer400(r, "latitude and longitude are required")
           ELSE IF ~IsNumeric(lat) \/ ~IsNumeric(lon)
           THEN Answer400(r, "Invalid latitude or longitude values")
           ELSE IF \/ lat.v < 0 - MaxLatitude * CoordScale
                   \/ lat.v > MaxLatitude * CoordScale
                   \/ lon.v < 0 - MaxLongitude * CoordScale
                   \/ lon.v > MaxLongitude * CoordScale
           THEN Answer400(r, "Latitude must be between -90 and 90, longitude between -180 and 180")
           ELSE /\ hframe' = [hframe EXCEPT ![r] =
                                [NoHFrame EXCEPT !.latitude = lat, !.longitude = lon]]
                /\ hpc' = [hpc EXCEPT ![r] = "reverse_cache_get"]
                /\ hresp' = [hresp EXCEPT ![r] = NoHResp]
                /\ getFromCache(r, ReverseKey(lat, lon))
    /\ UNCHANGED <<now, supabase, store, seq, faulted, lastSet, geoVars, updVars, scoreVars, extVars,
                   scrapeVars, disasters>>

\* getFromCache has returned: a hit is returned and answered; otherwise Google
\* Maps is asked if its key is set, else OpenStreetMap.
reverseGeocode_cached(r) ==
    /\ hpc[r] = "reverse_cache_get" /\ cpc[r] = "idle"
    /\ LET cached == ret[r].value
       IN  IF cached # Null
           THEN /\ hresp' = [hresp EXCEPT ![r] = Answer(200, "", cached)]
                /\ hpc' = [hpc EXCEPT ![r] = "idle"]
                /\ hframe' = [hframe EXCEPT ![r] = NoHFrame]
           ELSE /\ hpc' = [hpc EXCEPT ![r] =
                             IF env.google THEN "reverse_google" ELSE "reverse_osm"]
                /\ UNCHANGED <<hframe, hresp>>
    /\ UNCHANGED <<now, supabase, store, cpc, frame, ret, seq, faulted, lastSet, calls,
                   geoVars, updVars, scoreVars, extVars, scrapeVars, hreq, disasters>>

\* What the reverse geocoding of a provider answers: an address, no result, or
\* the request fails.
ReverseAnswers ==
    {[kind |-> "ok", address |-> "1 Main St"], [kind |-> "empty", address |-> ""],
     [kind |-> "throw", address |-> ""]}

\* Google Maps answers: status OK with a result is written to the cache;
\* anything else, and a failure, leads to OpenStreetMap.
reverseGeocode_google(r) ==
    /\ hpc[r] = "reverse_google"
    /\ \E answer \in ReverseAnswers :
         IF answer.kind = "ok"
         THEN LET f == hframe[r]
                  reverseData == ReverseData(f.latitude, f.longitude, answer.address,
                                             "google_maps", now)
              IN  /\ hframe' = [hframe EXCEPT ![r] =
                                  [f EXCEPT !.result = Some(reverseData),
                                            !.answers = Append(@, <<"google", answer.kind>>)]]
                  /\ hpc' = [hpc EXCEPT ![r] = "reverse_cache_set"]
                  /\ setCache(r, ReverseKey(f.latitude, f.longitude), reverseData, ReverseTtl)
         ELSE /\ hpc' = [hpc EXCEPT ![r] = "reverse_osm"]
              /\ hframe' = [hframe EXCEPT ![r].answers = Append(@, <<"google", answer.kind>>)]
              /\ UNCHANGED <<cpc, frame, ret>>
    /\ UNCHANGED <<now, supabase, store, seq, faulted, lastSet, calls, geoVars, updVars,
                   scoreVars, extVars, scrapeVars, hreq, hresp, disasters>>

\* OpenStreetMap answers: display_name, or 'Unknown Location' in its place, is
\* written to the cache; a failure goes to the catch block, whose record the
\* route answers.
reverseGeocode_osm(r) ==
    /\ hpc[r] = "reverse_osm"
    /\ \E answer \in ReverseAnswers :
         LET f == hframe[r]
         IN  IF answer.kind = "throw"
             THEN /\ hresp' = [hresp EXCEPT ![r] =
                                 Answer(200, "",
                                        Some(reverseGeocode_catch(f.latitude, f.longitude,
                                                                  "Request failed", now)))]
                  /\ hpc' = [hpc EXCEPT ![r] = "idle"]
                  /\ hframe' = [hframe EXCEPT ![r] =
                                  [NoHFrame EXCEPT !.answers =
                                      Append(f.answers, <<"osm", answer.kind>>)]]
                  /\ UNCHANGED <<cpc, frame, ret>>
             ELSE LET reverseData ==
                          ReverseData(f.latitude, f.longitude,
                                      IF answer.kind = "ok" THEN answer.address
                                      ELSE "Unknown Location",
                                      "openstreetmap", now)
                  IN  /\ hframe' = [hframe EXCEPT ![r] =
                                      [f EXCEPT !.result = Some(reverseData),
                                                !.answers = Append(@, <<"osm", answer.kind>>)]]
                      /\ hpc' = [hpc EXCEPT ![r] = "reverse_cache_set"]
                      /\ setCache(r, ReverseKey(f.latitude, f.longitude), reverseData,
                                  ReverseTtl)
                      /\ UNCHANGED hresp
    /\ UNCHANGED <<now, supabase, store, seq, faulted, lastSet, calls, geoVars, updVars,
                   scoreVars, extVars, scrapeVars, hreq, disasters>>

\* setCache has returned: reverseGeocode returns the record, the route answers it.
reverseGeocode_return(r) ==
    /\ hpc[r] = "reverse_cache_set" /\ cpc[r] = "idle"
    /\ hresp' = [hresp EXCEPT ![r] = Answer(200, "", hframe[r].result)]
    /\ hpc' = [hpc EXCEPT ![r] = "idle"]
    /\ hframe' = [hframe EXCEPT ![r] = [NoHFrame EXCEPT !.answers = hframe[r].answers]]
    /\ UNCHANGED <<now, supabase, store, cpc, frame, ret, seq, faulted, lastSet, calls,
                   geoVars, updVars, scoreVars, extVars, scrapeVars, hreq, disasters>>

\* x.length of a value of a JSON body: the number of code units of a string,
\* undefined for a number.
LengthOf(x) ==
    IF "t" \in DOMAIN x THEN UndefinedNumber
    ELSE IF x.type = "string" THEN Num(Len(x.units))
    ELSE UndefinedNumber

MinTitleLength == 5
MaxTitleLength == 200
MinDescriptionLength == 10
MinContentLength == 10

\* validateDisaster: the error it answers with 400, "" when it calls next().
validateDisaster(body) ==
    LET title == LengthOf(body.title)
        description == LengthOf(body.description)
    IN  IF ~TruthyValue(body.title) \/ ~TruthyValue(body.description)
        THEN "Title and description are required"
        ELSE IF IsNumeric(title) /\ (title.v < MinTitleLength \/ title.v > MaxTitleLength)
        THEN "Title must be between 5 and 200 characters"
        ELSE IF IsNumeric(description) /\ description.v < MinDescriptionLength
        THEN "Description must be at least 10 characters"
        ELSE ""

\* 'Unknown Location'
UnknownLocation ==
    Str(<<85, 110, 107, 110, 111, 119, 110, 32, 76, 111, 99, 97, 116, 105, 111, 110>>)

\* router.post('/', authenticate, validateDisaster, handler) with body { title,
\* description, location_name }: validateDisaster, then the handler up to its
\* first await.  Without a location name the handler calls
\* GeocodingService.extractLocationFromText, which GeocodingService does not
\* have: the TypeError is caught and the name stays empty.
PostDisasters(r, body) ==
    /\ hpc[r] = "idle" /\ cpc[r] = "idle" /\ gpc[r] = "idle"
    /\ calls < MaxHandlerCalls
    /\ calls' = calls + 1
    /\ hreq' = [hreq EXCEPT ![r] = [route |-> "disasters", id |-> 0, body |-> Some(body),
                                      n |-> calls + 1]]
    /\ IF validateDisaster(body) # ""
       THEN /\ Answer400(r, validateDisaster(body))
            /\ UNCHANGED <<now, supabase, store, seq, faulted, lastSet, geoVars>>
       ELSE IF ~supabase
       THEN /\ hresp' = [hresp EXCEPT ![r] = Answer(500, "Database not configured", Null)]
            /\ UNCHANGED <<hpc, hframe, cpc, frame, ret>>
            /\ UNCHANGED <<now, supabase, store, seq, faulted, lastSet, geoVars>>
       ELSE LET finalLocationName == body.location_name
            IN  /\ hframe' = [hframe EXCEPT ![r] =
                                [NoHFrame EXCEPT !.finalLocationName = finalLocationName]]
                /\ hresp' = [hresp EXCEPT ![r] = NoHResp]
                /\ IF TruthyValue(finalLocationName) /\ finalLocationName # UnknownLocation
                   THEN /\ hpc' = [hpc EXCEPT ![r] = "disaster_geocode"]
                        /\ geocodeLocation_begin(r, finalLocationName)
                   ELSE /\ hpc' = [hpc EXCEPT ![r] = "disaster_insert"]
                        /\ UNCHANGED <<cpc, frame, ret>>
                        /\ UNCHANGED <<now, supabase, store, seq, faulted, lastSet, geoVars>>
    /\ UNCHANGED <<updVars, scoreVars, extVars, scrapeVars, disasters>>

\* geocodeLocation has ended: its coordinates are kept (none if it threw), and
\* the insert is sent.
PostDisasters_geocoded(r) ==
    /\ hpc[r] = "disaster_geocode" /\ gpc[r] = "idle" /\ cpc[r] = "idle"
    /\ hframe' = [hframe EXCEPT ![r].coordinates =
                    IF gret[r].kind = "return"
                    THEN Some([latitude |-> gret[r].result[1].latitude,
                               longitude |-> gret[r].result[1].longitude])
                    ELSE Null]
    /\ hpc' = [hpc EXCEPT ![r] = "disaster_insert"]
    /\ UNCHANGED <<now, supabase, store, cpc, frame, ret, seq, faulted, lastSet, calls,
                   geoVars, updVars, scoreVars, extVars, scrapeVars, hreq, hresp, disasters>>

\* The row the handler inserts; the request number stands for the uuid.
DisasterData(req, f, t) ==
    [id |-> req.n, title |-> req.body[1].title, description |-> req.body[1].description,
     location_name |-> IF TruthyValue(f.finalLocationName) THEN f.finalLocationName
                       ELSE UnknownLocation,
     latitude |-> IF f.coordinates # Null THEN Some(f.coordinates[1].latitude) ELSE Null,
     longitude |-> IF f.coordinates # Null THEN Some(f.coordinates[1].longitude) ELSE Null,
     location |-> Null, severity |-> "moderate", status |-> "active",
     created_by |-> "testuser",
     created_at |-> toISOString(t), updated_at |-> toISOString(t),
     audit_trail |-> <<[action |-> "created", user_id |-> "testuser",
                        timestamp |-> toISOString(t)]>>]

\* (variant: the event is broadcast whatever the insert answered)
DisasterCreated_always(out, disaster, t) ==
    <<[name |-> "disaster_created", disaster |-> disaster, timestamp |-> toISOString(t)]>>

\* req.io.emit('disaster_created', ...): what the handler broadcasts once the
\* insert has answered out.
DisasterCreated(out, disaster, t) ==
    IF out = "ok"
    THEN <<[name |-> "disaster_created", disaster |-> disaster, timestamp |-> toISOString(t)]>>
    ELSE <<>>

\* The store runs the insert into table disasters: the row is broadcast and
\* answered with 201; an error and an exception are answered with 500.  (The
\* table takes every column the handlers write.)
PostDisasters_insert(r) ==
    /\ hpc[r] = "disaster_insert"
    /\ \E out \in StoreOutcomes :
         LET disasterData == DisasterData(hreq[r], hframe[r], now)
         IN  /\ disasters' = IF out = "ok" THEN disasters \cup {disasterData} ELSE disasters
             /\ events' = events \o DisasterCreated(out, disasterData, now)
             /\ hresp' = [hresp EXCEPT ![r] =
                   CASE out = "ok" -> Answer(201, "", Some(disasterData))
                     [] out = "error" -> Answer(500, "Failed to create disaster", Null)
                     [] out = "throw" -> Answer(500, "Internal server error", Null)]
    /\ hpc' = [hpc EXCEPT ![r] = "idle"]
    /\ hframe' = [hframe EXCEPT ![r] = NoHFrame]
    /\ UNCHANGED <<now, supabase, store, cpc, frame, ret, seq, faulted, lastSet, calls,
                   geoVars, updVars, scoreVars, filterVars, reports, stream, scrapeVars, hreq>>

\* ------------------------------------------------ PUT /api/disasters/:id
\* router.put('/:id', authenticate, validateDisaster, handler) with body
\* { title, description, location_name }: validateDisaster, then the handler up
\* to the await of the select.  In demo mode supabase is null and
\* supabase.from throws: the catch block answers 500.
PutDisaster(r, id, body) ==
    /\ hpc[r] = "idle" /\ cpc[r] = "idle" /\ gpc[r] = "idle"
    /\ calls < MaxHandlerCalls
    /\ calls' = calls + 1
    /\ hreq' = [hreq EXCEPT ![r] = [route |-> "update", id |-> id, body |-> Some(body),
                                      n |-> calls + 1]]
    /\ IF validateDisaster(body) # ""
       THEN Answer400(r, validateDisaster(body))
       ELSE IF ~supabase
       THEN /\ hresp' = [hresp EXCEPT ![r] = Answer(500, "Internal server error", Null)]
            /\ UNCHANGED <<hpc, hframe, cpc, frame, ret>>
       ELSE /\ hframe' = [hframe EXCEPT ![r] = NoHFrame]
            /\ hresp' = [hresp EXCEPT ![r] = NoHResp]
            /\ hpc' = [hpc EXCEPT ![r] = "update_select"]
            /\ UNCHANGED <<cpc, frame, ret>>
    /\ UNCHANGED <<now, supabase, store, seq, faulted, lastSet, geoVars, updVars, scoreVars,
                   scrapeVars, disasters, extVars>>

\* The store answers the select of the disaster: without a row the handler
\* answers 404 (an exception: 500); with the row, which it keeps as
\* existingDisaster, it geocodes the location name if that has changed, and
\* else sends the update.  req.user.role is 'admin': no 403.
PutDisaster_selected(r) ==
    /\ hpc[r] = "update_select"
    /\ \E out \in StoreOutcomes :
         LET found == {d \in disasters : d.id = hreq[r].id}
             location_name == hreq[r].body[1].location_name
         IN  IF out = "throw"
             THEN /\ hresp' = [hresp EXCEPT ![r] = Answer(500, "Internal server error", Null)]
                  /\ hpc' = [hpc EXCEPT ![r] = "idle"]
                  /\ UNCHANGED <<hframe, cpc, frame, ret, seq, gpc, gframe, gret>>
             ELSE IF out = "error" \/ found = {}
             THEN /\ hresp' = [hresp EXCEPT ![r] = Answer(404, "Disaster not found", Null)]
                  /\ hpc' = [hpc EXCEPT ![r] = "idle"]
                  /\ UNCHANGED <<hframe, cpc, frame, ret, seq, gpc, gframe, gret>>
             ELSE LET existingDisaster == CHOOSE d \in found : TRUE
                  IN  /\ hframe' = [hframe EXCEPT ![r].existing = Some(existingDisaster)]
                      /\ UNCHANGED hresp
                      /\ IF /\ TruthyValue(location_name)
                            /\ location_name # existingDisaster.location_name
                         THEN /\ hpc' = [hpc EXCEPT ![r] = "update_geocode"]
                              /\ geocodeLocation_begin(r, location_name)
                         ELSE /\ hpc' = [hpc EXCEPT ![r] = "update_send"]
                              /\ UNCHANGED <<cpc, frame, ret, seq, gpc, gframe, gret>>
    /\ UNCHANGED <<now, supabase, store, faulted, lastSet, calls, env, updVars, scoreVars,
                   scrapeVars, hreq, disasters, extVars>>

\* geocodeLocation has ended: its coordinates are kept (none if it threw), and
\* the update is sent.
PutDisaster_geocoded(r) ==
    /\ hpc[r] = "update_geocode" /\ gpc[r] = "idle" /\ cpc[r] = "idle"
    /\ hframe' = [hframe EXCEPT ![r].coordinates =
                    IF gret[r].kind = "return"
                    THEN Some([latitude |-> gret[r].result[1].latitude,
                               longitude |-> gret[r].result[1].longitude])
                    ELSE Null]
    /\ hpc' = [hpc EXCEPT ![r] = "update_send"]
    /\ UNCHANGED <<now, supabase, store, cpc, frame, ret, seq, faulted, lastSet, calls,
                   geoVars, updVars, scoreVars, scrapeVars, hreq, hresp, disasters, extVars>>

\* audit_trail: [...existingDisaster.audit_trail, { action: 'updated', ... }]
AuditTrail(existingDisaster, t) ==
    Append(existingDisaster.audit_trail,
           [action |-> "updated", user_id |-> "testuser", timestamp |-> toISOString(t)])

\* The row after .update(updateData).eq('id', id): the columns of updateData
\* replace those of the row as the update finds it; a column whose value is
\* undefined is left alone.
UpdatedRow(current, req, f, t) ==
    LET body == req.body[1]
        existingDisaster == f.existing[1]
    IN  [current EXCEPT
            !.title = body.title,
            !.description = body.description,
            !.location_name = IF body.location_name = Undefined THEN @
                              ELSE body.location_name,
            !.location = IF f.coordinates # Null THEN f.coordinates
                         ELSE existingDisaster.location,
            !.updated_at = toISOString(t),
            !.audit_trail = AuditTrail(existingDisaster, t)]

\* The store runs the update: the row is broadcast and answered with 200; an
\* error and an exception are answered with 500.
PutDisaster_update(r) ==
    /\ hpc[r] = "update_send"
    /\ \E out \in StoreOutcomes :
         LET current == CHOOSE d \in disasters : d.id = hreq[r].id
             data == UpdatedRow(current, hreq[r], hframe[r], now)
         IN  /\ disasters' = IF out = "ok" THEN (disasters \ {current}) \cup {data}
                             ELSE disasters
             /\ events' = IF out = "ok"
                          THEN Append(events, [name |-> "disaster_updated", disaster |-> data,
                                               timestamp |-> toISOString(now)])
                          ELSE events
             /\ hresp' = [hresp EXCEPT ![r] =
                   CASE out = "ok" -> Answer(200, "", Some(data))
                     [] out = "error" -> Answer(500, "Failed to update disaster", Null)
                     [] out = "throw" -> Answer(500, "Internal server error", Null)]
    /\ hpc' = [hpc EXCEPT ![r] = "idle"]
    /\ hframe' = [hframe EXCEPT ![r] = NoHFrame]
    /\ UNCHANGED <<now, supabase, store, cpc, frame, ret, seq, faulted, lastSet, calls,
                   geoVars, updVars, scoreVars, filterVars, reports, stream, scrapeVars, hreq>>

\* ------------------------------------------------------------ /api/reports
\* The statuses PUT /:id/verify accepts: 'pending', 'verified', 'rejected'.
Pending == Str(<<112, 101, 110, 100, 105, 110, 103>>)

Verified == Str(<<118, 101, 114, 105, 102, 105, 101, 100>>)

RejectedStatus == Str(<<114, 101, 106, 101, 99, 116, 101, 100>>)

validStatuses == {Pending, Verified, RejectedStatus}

\* The id of a row that a path or a body names (ids are numbered here, in the
\* order of the requests that made them).
IdOf(x) == UnitsValue(x.units)

\* router.post('/', authenticate, handler) with body { disaster_id, content,
\* image_url }: the validation, then the handler up to the await of the select
\* of the disaster.  In demo mode supabase is null and supabase.from throws:
\* the catch block answers 500.
PostReport(r, body) ==
    /\ hpc[r] = "idle" /\ cpc[r] = "idle" /\ gpc[r] = "idle"
    /\ calls < MaxHandlerCalls
    /\ calls' = calls + 1
    /\ hreq' = [hreq EXCEPT ![r] = [route |-> "report", id |-> 0, body |-> Some(body),
                                      n |-> calls + 1]]
    /\ IF ~TruthyValue(body.disaster_id) \/ ~TruthyValue(body.content)
       THEN Answer400(r, "disaster_id and content are required")
       ELSE IF Len(body.content.units) < MinContentLength
       THEN Answer400(r, "Content must be at least 10 characters long")
       ELSE IF ~supabase
       THEN /\ hresp' = [hresp EXCEPT ![r] = Answer(500, "Internal server error", Null)]
            /\ UNCHANGED <<hpc, hframe, cpc, frame, ret>>
       ELSE /\ hframe' = [hframe EXCEPT ![r] = NoHFrame]
            /\ hresp' = [hresp EXCEPT ![r] = NoHResp]
            /\ hpc' = [hpc EXCEPT ![r] = "report_select"]
            /\ UNCHANGED <<cpc, frame, ret>>
    /\ UNCHANGED <<now, supabase, store, seq, faulted, lastSet, geoVars, updVars, scoreVars,
                   scrapeVars, disasters, extVars>>

\* The store answers the select of the disaster: without a row the handler
\* answers 404 (an exception: 500); else it sends the insert of the report.
PostReport_selected(r) ==
    /\ hpc[r] = "report_select"
    /\ \E out \in StoreOutcomes :
         LET found == {d \in disasters : d.id = IdOf(hreq[r].body[1].disaster_id)}
         IN  IF out = "throw"
             THEN /\ hresp' = [hresp EXCEPT ![r] = Answer(500, "Internal server error", Null)]
                  /\ hpc' = [hpc EXCEPT ![r] = "idle"]
             ELSE IF out = "error" \/ found = {}
             THEN /\ hresp' = [hresp EXCEPT ![r] = Answer(404, "Disaster not found", Null)]
                  /\ hpc' = [hpc EXCEPT ![r] = "idle"]
             ELSE /\ hpc' = [hpc EXCEPT ![r] = "report_insert"]
                  /\ UNCHANGED hresp
    /\ UNCHANGED <<now, supabase, store, cpc, frame, ret, seq, faulted, lastSet, calls,
                   geoVars, updVars, scoreVars, scrapeVars, hframe, hreq, disasters, extVars>>

\* The row the handler inserts; the columns it does not name take their
\* defaults (null).  The request number stands for the uuid.
ReportData(req, t) ==
    [id |-> req.n, disaster_id |-> IdOf(req.body[1].disaster_id), user_id |-> "testuser",
     content |-> req.body[1].content, image_url |-> req.body[1].image_url,
     verification_status |-> Pending, verified_at |-> Null, verified_by |-> Null,
     verification_notes |-> Null, created_at |-> toISOString(t)]

\* The store runs the insert: an error and an exception are answered with 500.
\* With an image_url the handler then calls GeminiService.verifyDisasterImage;
\* the module does not import GeminiService, the ReferenceError is caught and
\* logged, and the status stays as inserted.  The row is broadcast and
\* answered with 201.
PostReport_insert(r) ==
    /\ hpc[r] = "report_insert"
    /\ \E out \in StoreOutcomes :
         LET data == ReportData(hreq[r], now)
         IN  /\ reports' = IF out = "ok" THEN reports \cup {data} ELSE reports
             /\ events' = IF out = "ok"
                          THEN Append(events, [name |-> "report_created", report |-> data,
                                               timestamp |-> toISOString(now)])
                          ELSE events
             /\ hresp' = [hresp EXCEPT ![r] =
                   CASE out = "ok" -> Answer(201, "", Some(data))
                     [] out = "error" -> Answer(500, "Failed to create report", Null)
                     [] out = "throw" -> Answer(500, "Internal server error", Null)]
    /\ hpc' = [hpc EXCEPT ![r] = "idle"]
    /\ UNCHANGED <<now, supabase, store, cpc, frame, ret, seq, faulted, lastSet, calls,
                   geoVars, updVars, scoreVars, filterVars, stream, scrapeVars, hframe, hreq,
                   disasters>>

\* router.put('/:id/verify', authenticate, handler) with body
\* { verification_status, notes }: req.user.role is 'admin'; the status is
\* checked, then the handler runs up to the await of the select of the report.
PutVerify(r, id, body) ==
    /\ hpc[r] = "idle" /\ cpc[r] = "idle" /\ gpc[r] = "idle"
    /\ calls < MaxHandlerCalls
    /\ calls' = calls + 1
    /\ hreq' = [hreq EXCEPT ![r] = [route |-> "verify", id |-> id, body |-> Some(body),
                                      n |-> calls + 1]]
    /\ IF body.verification_status \notin validStatuses
       THEN Answer400(r, "Invalid verification status")
       ELSE IF ~supabase
       THEN /\ hresp' = [hresp EXCEPT ![r] = Answer(500, "Internal server error", Null)]
            /\ UNCHANGED <<hpc, hframe, cpc, frame, ret>>
       ELSE /\ hframe' = [hframe EXCEPT ![r] = NoHFrame]
            /\ hresp' = [hresp EXCEPT ![r] = NoHResp]
            /\ hpc' = [hpc EXCEPT ![r] = "verify_select"]
            /\ UNCHANGED <<cpc, frame, ret>>
    /\ UNCHANGED <<now, supabase, store, seq, faulted, lastSet, geoVars, updVars, scoreVars,
                   scrapeVars, disasters, extVars>>

\* The store answers the select of the report: without a row the handler
\* answers 404 (an exception: 500); else it sends the update.
PutVerify_selected(r) ==
    /\ hpc[r] = "verify_select"
    /\ \E out \in StoreOutcomes :
         IF out = "throw"
         THEN /\ hresp' = [hresp EXCEPT ![r] = Answer(500, "Internal server error", Null)]
              /\ hpc' = [hpc EXCEPT ![r] = "idle"]
         ELSE IF out = "error" \/ {x \in reports : x.id = hreq[r].id} = {}
         THEN /\ hresp' = [hresp EXCEPT ![r] = Answer(404, "Report not found", Null)]
              /\ hpc' = [hpc EXCEPT ![r] = "idle"]
         ELSE /\ hpc' = [hpc EXCEPT ![r] = "verify_send"]
              /\ UNCHANGED hresp
    /\ UNCHANGED <<now, supabase, store, cpc, frame, ret, seq, faulted, lastSet, calls,
                   geoVars, updVars, scoreVars, scrapeVars, hframe, hreq, disasters, extVars>>

\* (variant: verified_at and verified_by are set whatever the status)
VerificationUpdate_stamped(verification_status, notes, t) ==
    [verification_status |-> verification_status,
     verified_at |-> Some(toISOString(t)),
     verified_by |-> Some("testuser"),
     verification_notes |-> IF Truthy(notes) THEN Some(notes) ELSE Null]

\* The columns the handler updates.
VerificationUpdate(verification_status, notes, t) ==
    [verification_status |-> verification_status,
     verified_at |-> IF verification_status # Pending THEN Some(toISOString(t)) ELSE Null,
     verified_by |-> IF verification_status # Pending THEN Some("testuser") ELSE Null,
     verification_notes |-> IF Truthy(notes) THEN Some(notes) ELSE Null]

\* The store runs the update: the row is broadcast and answered with 200; an
\* error and an exception are answered with 500.
PutVerify_update(r) ==
    /\ hpc[r] = "verify_send"
    /\ \E out \in StoreOutcomes :
         LET current == CHOOSE x \in reports : x.id = hreq[r].id
             columns == VerificationUpdate(hreq[r].body[1].verification_status,
                                           hreq[r].body[1].notes, now)
             data == [current EXCEPT
                         !.verification_status = columns.verification_status,
                         !.verified_at = columns.verified_at,
                         !.verified_by = columns.verified_by,
                         !.verification_notes = columns.verification_notes]
         IN  /\ reports' = IF out = "ok" THEN (reports \ {current}) \cup {data} ELSE reports
             /\ events' = IF out = "ok"
                          THEN Append(events, [name |-> "report_verified", report |-> data,
                                               timestamp |-> toISOString(now)])
                          ELSE events
             /\ hresp' = [hresp EXCEPT ![r] =
                   CASE out = "ok" -> Answer(200, "", Some(data))
                     [] out = "error" -> Answer(500, "Failed to update verification status",
                                                Null)
                     [] out = "throw" -> Answer(500, "Internal server error", Null)]
    /\ hpc' = [hpc EXCEPT ![r] = "idle"]
    /\ UNCHANGED <<now, supabase, store, cpc, frame, ret, seq, faulted, lastSet, calls,
                   geoVars, updVars, scoreVars, filterVars, stream, scrapeVars, hframe, hreq,
                   disasters>>

\* ------------------------------------------------- the social media stream
\* Before a stream is opened.  kind: "route" for GET
\* /api/social-media/:disaster_id/stream, "service" for
\* SocialMediaService.streamSocialMediaUpdates; interval: the setInterval timer
\* is armed; pending: the interval callbacks that await their fetch; out: what
\* was written to the response, or handed to the callback.
NoStream ==
    [kind |-> "none", state |-> "none", interval |-> FALSE, pending |-> 0, out |-> <<>>]

\* router.get('/:disaster_id/stream'): the headers and the connection event
\* are written, the interval is armed and the 'close' listener is installed.
GetStream ==
    /\ stream.state = "none"
    /\ stream' = [kind |-> "route", state |-> "open", interval |-> TRUE, pending |-> 0,
                  out |-> <<[type |-> "connection", total_posts |-> 0,
                             high_priority_posts |-> 0, timestamp |-> toISOString(now)]>>]
    /\ UNCHANGED <<now, supabase, store, cpc, frame, ret, seq, faulted, lastSet, calls,
                   geoVars, updVars, scoreVars, scrapeVars, valVars, filterVars, events,
                   reports>>

\* SocialMediaService.streamSocialMediaUpdates(disasterId, callback): the
\* interval is armed and the cleanup function is returned.
streamSocialMediaUpdates ==
    /\ stream.state = "none"
    /\ stream' = [kind |-> "service", state |-> "open", interval |-> TRUE, pending |-> 0,
                  out |-> <<>>]
    /\ UNCHANGED <<now, supabase, store, cpc, frame, ret, seq, faulted, lastSet, calls,
                   geoVars, updVars, scoreVars, scrapeVars, valVars, filterVars, events,
                   reports>>

\* The timer fires, 30 seconds after it was armed or last fired: the interval
\* callback (sendUpdate in the route) starts and awaits
\* fetchSocialMediaReports.  A fetch that takes longer than the period is
\* still awaited when the timer fires again.
Stream_interval ==
    /\ stream.interval
    /\ now < MaxIntervalTicks * StreamIntervalMs
    /\ now' = now + StreamIntervalMs
    /\ stream' = [stream EXCEPT !.pending = @ + 1]
    /\ UNCHANGED <<supabase, store, cpc, frame, ret, seq, faulted, lastSet, calls,
                   geoVars, updVars, scoreVars, scrapeVars, valVars, filterVars, events,
                   reports>>

\* What fetchSocialMediaReports resolves with: its posts (here two, one of
\* priority 7 or more), or no post when its catch block built the result.
FetchResults ==
    {[total_posts |-> 2, high_priority_posts |-> 1],
     [total_posts |-> 0, high_priority_posts |-> 0]}

\* What an interval callback does with the result of its fetch: the route
\* writes an 'update' event to the response, the service calls
\* callback(updates).
StreamOutput(st, result, t) ==
    <<[type |-> "update", total_posts |-> result.total_posts,
       high_priority_posts |-> result.high_priority_posts,
       timestamp |-> toISOString(t)]>>

\* An awaited fetch resolves and the interval callback goes on.
Stream_fetched ==
    /\ stream.pending > 0
    /\ \E result \in FetchResults :
         stream' = [stream EXCEPT !.pending = @ - 1,
                                  !.out = @ \o StreamOutput(stream, result, now)]
    /\ UNCHANGED <<now, supabase, store, cpc, frame, ret, seq, faulted, lastSet, calls,
                   geoVars, updVars, scoreVars, scrapeVars, valVars, filterVars, events,
                   reports>>

\* The client connection closes and the 'close' listener runs, or the cleanup
\* function of streamSocialMediaUpdates is called: clearInterval(intervalId).
Stream_stop ==
    /\ stream.state = "open"
    /\ stream' = [stream EXCEPT !.state = "stopped", !.interval = FALSE]
    /\ UNCHANGED <<now, supabase, store, cpc, frame, ret, seq, faulted, lastSet, calls,
                   geoVars, updVars, scoreVars, scrapeVars, valVars, filterVars, events,
                   reports>>

\* ---------------------------------------- filterUpdatesByPriority, called
NoFilterIn == [updates |-> <<>>, minPriority |-> "medium"]

\* OfficialUpdatesService.filterUpdatesByPriority(updates, minPriority)
FilterUpdatesByPriority ==
    /\ filterOut = Null
    /\ filterOut' = Some(filterUpdatesByPriority(filterIn.updates, filterIn.minPriority))
    /\ UNCHANGED <<now, supabase, store, cpc, frame, ret, seq, faulted, lastSet, calls,
                   geoVars, updVars, scoreVars, scrapeVars, valVars, filterIn, events,
                   reports, stream>>

\* The route handlers, before a request.
InitHandlers ==
    /\ upc = [u \in Updaters |-> "idle"]
    /\ uframe = [u \in Updaters |-> NoUFrame]
    /\ uret = [u \in Updaters |-> NoURet]
    /\ uresp = [u \in Updaters |-> NoUResp]
    /\ spc = [s \in Scrapers |-> "idle"]
    /\ sres = [s \in Scrapers |-> NoSRes]
    /\ apc = "idle"
    /\ aret = NoARet
    /\ hpc = [r \in Requests |-> "idle"]
    /\ hframe = [r \in Requests |-> NoHFrame]
    /\ hreq = [r \in Requests |-> NoHReq]
    /\ hresp = [r \in Requests |-> NoHResp]
    /\ events = <<>>
    /\ stream = NoStream

\* The tables disasters and reports, empty.
InitTables ==
    /\ disasters = {}
    /\ reports = {}

\* The pure functions, before a call.
InitPure ==
    /\ scoreIn = NoScoreIn
    /\ scoreOut = Null
    /\ filterIn = NoFilterIn
    /\ filterOut = Null

\* The handlers and functions outside the cache and the geocoding service,
\* before a request.
InitApp ==
    /\ InitHandlers
    /\ InitTables
    /\ InitPure

\* ------------------------------------------------------------- callers
\* Requests that use the cache directly.  seq and lastSet are history kept for
\* the properties: lastSet is dropped once two calls have overlapped.
Sequential(p) == seq /\ \A q \in Clients \ {p} : cpc[q] = "idle"

NoSet == [n |-> 0, value |-> "", prev |-> "", w |-> 0, ttl |-> 0]

ClientGet(p, key) ==
    /\ getFromCache(p, key)
    /\ calls < MaxCalls
    /\ calls' = calls + 1
    /\ seq' = Sequential(p)
    /\ lastSet' = IF seq' THEN lastSet ELSE [k \in CacheKeys |-> NoSet]
    /\ UNCHANGED <<now, supabase, store, faulted, geoVars, appVars>>

ClientSet(p, key, value, ttlSeconds) ==
    /\ setCache(p, key, value, ttlSeconds)
    /\ calls < MaxCalls
    /\ calls' = calls + 1
    /\ seq' = Sequential(p)
    /\ lastSet' = IF seq'
                  THEN [lastSet EXCEPT ![key] =
                          [n |-> IF @.n < 2 THEN @.n + 1 ELSE 2, value |-> value,
                           prev |-> @.value, w |-> now, ttl |-> ttlSeconds]]
                  ELSE [k \in CacheKeys |-> NoSet]
    /\ UNCHANGED <<now, supabase, store, faulted, geoVars, appVars>>

ClientCleanup(p) ==
    /\ cleanupExpiredCache(p)
    /\ calls < MaxCalls
    /\ calls' = calls + 1
    /\ seq' = Sequential(p)
    /\ lastSet' = IF seq' THEN lastSet ELSE [k \in CacheKeys |-> NoSet]
    /\ UNCHANGED <<now, supabase, store, faulted, geoVars, appVars>>

Tick ==
    /\ now + TickMs <= MaxTicks * TickMs
    /\ now' = now + TickMs
    /\ UNCHANGED <<supabase, store, cpc, frame, ret, seq, faulted, lastSet, calls, geoVars, appVars>>

Init ==
    /\ now = 0
    /\ supabase \in BOOLEAN
    /\ store = {}
    /\ cpc = [p \in Callers |-> "idle"]
    /\ frame = [p \in Callers |-> NoFrame]
    /\ ret = [p \in Callers |-> NoRet]
    /\ seq = TRUE
    /\ faulted = FALSE
    /\ lastSet = [k \in CacheKeys |-> NoSet]
    /\ calls = 0
    /\ env = [google |-> FALSE, mapbox |-> FALSE]
    /\ gpc = [r \in Requests |-> "idle"]
    /\ gframe = [r \in Requests |-> NoGFrame]
    /\ gret = [r \in Requests |-> NoGRet]
    /\ InitApp

Next ==
    \/ Tick
    \/ \E p \in Clients, k \in CacheKeys : ClientGet(p, k)
    \/ \E p \in Clients, k \in CacheKeys, v \in CacheValues, t \in Ttls : ClientSet(p, k, v, t)
    \/ \E p \in Clients : ClientCleanup(p)
    \/ \E p \in Clients : getFromCache_select(p)
    \/ \E p \in Clients : getFromCache_check(p)
    \/ \E p \in Clients : getFromCache_delete(p)
    \/ \E p \in Clients : setCache_upsert(p)
    \/ \E p \in Clients : cleanupExpiredCache_delete(p)

Spec == Init /\ [][Next]_vars

\* ------------------------------------------------ the geocoding service
\* Location names given to geocodeLocation: a string ("NYC"), or undefined
\* (a caller that passes a missing field), on which Buffer.from throws.
Locations == {Str(<<78, 89, 67>>), Undefined}

\* Rows that earlier geocoding calls left in the cache: under each provider's
\* key a record of that provider, about to expire or still good for a day.
SeedRows ==
    {[key |-> GeocodeKey(p, Str(<<78, 89, 67>>)),
      value |-> GeocodeData(p, Str(<<78, 89, 67>>),
                            CHOOSE b \in Bodies(p) : ~Rejected(p, b), 0),
      expires_at |-> e] :
        p \in {"google", "mapbox", "osm"},
        e \in {toISOString(TickMs), toISOString(GeocodeTtl * MsPerSec)}}

SeedStores == {S \in SUBSET SeedRows : \A r1, r2 \in S : r1.key = r2.key => r1 = r2}

InitGeo ==
    /\ now = 0
    /\ supabase \in BOOLEAN
    /\ store \in IF supabase THEN SeedStores ELSE {{}}
    /\ cpc = [p \in Callers |-> "idle"]
    /\ frame = [p \in Callers |-> NoFrame]
    /\ ret = [p \in Callers |-> NoRet]
    /\ seq = TRUE
    /\ faulted = FALSE
    /\ lastSet = [k \in CacheKeys |-> NoSet]
    /\ calls = 0
    /\ env \in [{"google", "mapbox"} -> BOOLEAN]
    /\ gpc = [r \in Requests |-> "idle"]
    /\ gframe = [r \in Requests |-> NoGFrame]
    /\ gret = [r \in Requests |-> NoGRet]
    /\ InitApp

\* One caller of the service at a time.
Service == {"r1"}

NextGeo ==
    \/ Tick
    \/ \E r \in Service, l \in Locations : geocodeLocation(r, l)
    \/ \E r \in Service : geocodeWith_cached(r)
    \/ \E r \in Service : geocodeWith_response(r)
    \/ \E r \in Service : geocodeWith_return(r)
    \/ \E r \in Service : getFromCache_select(r)
    \/ \E r \in Service : getFromCache_check(r)
    \/ \E r \in Service : getFromCache_delete(r)
    \/ \E r \in Service : setCache_upsert(r)

SpecGeo == InitGeo /\ [][NextGeo]_vars

\* Requests to POST /api/geocoding/geocode that may overlap.  The location
\* names: '', U+FFFD and a lone surrogate; the provider field: absent,
\* 'google', 'Mapbox', 'osm', 'x'.
RouteLocations == {Str(<<>>), Str(<<65533>>), Str(<<55296>>)}

RouteProviders ==
    {Undefined, Str(<<103, 111, 111, 103, 108, 101>>), Str(<<77, 97, 112, 98, 111, 120>>),
     Str(<<111, 115, 109>>), Str(<<120>>)}

\* A cache row that an earlier request to Google Maps left, expired since.
RouteStale ==
    [key |-> GeocodeKey("google", Str(<<65533>>)),
     value |-> GeocodeData("google", Str(<<65533>>),
                           CHOOSE b \in Bodies("google") : ~Rejected("google", b),
                           0 - GeocodeTtl * MsPerSec - TickMs),
     expires_at |-> toISOString(0 - TickMs)]

InitRoute ==
    /\ now = 0
    /\ supabase = TRUE
    /\ store \in {{}, {RouteStale}}
    /\ cpc = [p \in Callers |-> "idle"]
    /\ frame = [p \in Callers |-> NoFrame]
    /\ ret = [p \in Callers |-> NoRet]
    /\ seq = TRUE
    /\ faulted = FALSE
    /\ lastSet = [k \in CacheKeys |-> NoSet]
    /\ calls = 0
    /\ env \in {[google |-> g, mapbox |-> FALSE] : g \in BOOLEAN}
    /\ gpc = [r \in Requests |-> "idle"]
    /\ gframe = [r \in Requests |-> NoGFrame]
    /\ gret = [r \in Requests |-> NoGRet]
    /\ InitApp

NextRoute ==
    \/ Tick
    \/ \E r \in Requests, l \in RouteLocations, p \in RouteProviders :
          calls < MaxRouteCalls /\ PostGeocode(r, l, p)
    \/ \E r \in Requests : geocodeWith_cached(r)
    \/ \E r \in Requests : geocodeWith_response(r)
    \/ \E r \in Requests : geocodeWith_return(r)
    \/ \E r \in Requests : getFromCache_select(r)
    \/ \E r \in Requests : getFromCache_check(r)
    \/ \E r \in Requests : getFromCache_delete(r)
    \/ \E r \in Requests : setCache_upsert(r)

SpecRoute == InitRoute /\ [][NextRoute]_vars

\* The steps of request r that the event loop runs by itself: each continues
\* the request after an awaited cache call, or is a step of the cache call.
\* geocodeWith_response is not among them: it needs the provider's answer, and
\* axios.get is called with no timeout option (the axios default, 0, is no
\* timeout), so nothing in the code ends the wait.
GeoSteps(r) ==
    \/ geocodeWith_cached(r)
    \/ geocodeWith_return(r)
    \/ getFromCache_select(r)
    \/ getFromCache_check(r)
    \/ getFromCache_delete(r)
    \/ setCache_upsert(r)

SpecGeoFair == SpecGeo /\ \A r \in Requests : WF_vars(GeoSteps(r))

\* Requests to GET /api/official-updates/:disaster_id.  The query fields are
\* strings or absent.  sources: 'FEMA, nyc_emergency_management';
\* priority: 'high', 'low'; type: 'government, local_government'; limit: '2',
\* '-1'; offset: '1', '-2', 'x'.
DisasterIds == {<<49>>}

QuerySources ==
    {Undefined,
     Str(<<70, 69, 77, 65, 44, 32, 110, 121, 99, 95, 101, 109, 101, 114, 103, 101, 110, 99,
           121, 95, 109, 97, 110, 97, 103, 101, 109, 101, 110, 116>>)}

QueryPriorities == {Undefined, Str(<<104, 105, 103, 104>>), Str(<<108, 111, 119>>)}

QueryTypes ==
    {Undefined,
     Str(<<103, 111, 118, 101, 114, 110, 109, 101, 110, 116, 44, 32, 108, 111, 99, 97, 108,
           95, 103, 111, 118, 101, 114, 110, 109, 101, 110, 116>>)}

QueryLimits == {Undefined, Str(<<50>>), Str(<<45, 49>>)}

QueryOffsets == {Undefined, Str(<<49>>), Str(<<45, 50>>), Str(<<120>>)}

Queries ==
    [sources : QuerySources, priority : QueryPriorities, type : QueryTypes,
     limit : QueryLimits, offset : QueryOffsets]

\* A cache row that an earlier request for all sources left, expired since.
UpdatesStale ==
    [key |-> UpdatesKey(<<49>>, <<>>),
     value |-> UpdatesResult(<<49>>, <<>>, 0 - UpdatesTtl * MsPerSec - TickMs),
     expires_at |-> toISOString(0 - TickMs)]

InitUpdates ==
    /\ now = 0
    /\ supabase \in BOOLEAN
    /\ store \in IF supabase THEN {{}, {UpdatesStale}} ELSE {{}}
    /\ cpc = [p \in Callers |-> "idle"]
    /\ frame = [p \in Callers |-> NoFrame]
    /\ ret = [p \in Callers |-> NoRet]
    /\ seq = TRUE
    /\ faulted = FALSE
    /\ lastSet = [k \in CacheKeys |-> NoSet]
    /\ calls = 0
    /\ env = [google |-> FALSE, mapbox |-> FALSE]
    /\ gpc = [r \in Requests |-> "idle"]
    /\ gframe = [r \in Requests |-> NoGFrame]
    /\ gret = [r \in Requests |-> NoGRet]
    /\ InitApp

NextUpdates ==
    \/ Tick
    \/ \E u \in Updaters, d \in DisasterIds, q \in Queries : GetOfficialUpdates(u, d, q)
    \/ \E u \in Updaters : fetchOfficialUpdates_cached(u)
    \/ \E u \in Updaters : fetchOfficialUpdates_return(u)
    \/ \E u \in Updaters : getFromCache_select(u)
    \/ \E u \in Updaters : getFromCache_check(u)
    \/ \E u \in Updaters : getFromCache_delete(u)
    \/ \E u \in Updaters : setCache_upsert(u)

SpecUpdates == InitUpdates /\ [][NextUpdates]_vars

\* Posts and analyses handed to calculatePriority.  The contents: '', 'Need
\* water', 'URGENT: SOS, help!', and one with all six keywords; the
\* engagement totals lie on both sides of 50 and of 100.
ScoreContents ==
    {<<>>, <<78, 101, 101, 100, 32, 119, 97, 116, 101, 114>>,
     <<85, 82, 71, 69, 78, 84, 58, 32, 83, 79, 83, 44, 32, 104, 101, 108, 112, 33>>,
     <<115, 111, 115, 32, 117, 114, 103, 101, 110, 116, 32, 101, 109, 101, 114, 103, 101,
       110, 99, 121, 32, 104, 101, 108, 112, 32, 114, 101, 115, 99, 117, 101, 32, 116,
       114, 97, 112, 112, 101, 100>>}

ScoreEngagements == [likes : {0, 50, 100}, retweets : {0, 1}, replies : {0, 50}]

ScoreUrgencies == {"critical", "high", "medium", "low", "unknown"}

ScoreContentTypes == {"help_request", "emergency_alert", "information"}

ScoreInputs ==
    [post : [content : ScoreContents, engagement : ScoreEngagements],
     analysis : [urgency : ScoreUrgencies, contentType : ScoreContentTypes]]

InitPriority ==
    /\ now = 0
    /\ supabase = FALSE
    /\ store = {}
    /\ cpc = [p \in Callers |-> "idle"]
    /\ frame = [p \in Callers |-> NoFrame]
    /\ ret = [p \in Callers |-> NoRet]
    /\ seq = TRUE
    /\ faulted = FALSE
    /\ lastSet = [k \in CacheKeys |-> NoSet]
    /\ calls = 0
    /\ env = [google |-> FALSE, mapbox |-> FALSE]
    /\ gpc = [r \in Requests |-> "idle"]
    /\ gframe = [r \in Requests |-> NoGFrame]
    /\ gret = [r \in Requests |-> NoGRet]
    /\ InitHandlers
    /\ InitTables
    /\ scoreIn \in ScoreInputs
    /\ scoreOut = Null
    /\ filterIn = NoFilterIn
    /\ filterOut = Null

NextPriority == CalculatePriority

SpecPriority == InitPriority /\ [][NextPriority]_vars

\* A cache row that an earlier scrape of FEMA left, still good.
ScrapeSeed ==
    [key |-> ScrapeKey(officialSources[1]),
     value |-> ScrapeResult(officialSources[1],
                            ExtractUpdates(officialSources[1],
                                           <<Element(<<79, 108, 100>>, <<78, 101, 119, 115>>)>>,
                                           0),
                            0),
     expires_at |-> ExpiresAt(0, ScrapeTtl)]

\* A cache row that an earlier scrape of the Red Cross left, expired since.
ScrapeStale ==
    [key |-> ScrapeKey(officialSources[2]),
     value |-> ScrapeResult(officialSources[2], <<>>, 0 - ScrapeTtl * MsPerSec - TickMs),
     expires_at |-> toISOString(0 - TickMs)]

InitScrape ==
    /\ now = 0
    /\ supabase \in BOOLEAN
    /\ store \in IF supabase THEN SUBSET {ScrapeSeed, ScrapeStale} ELSE {{}}
    /\ cpc = [p \in Callers |-> "idle"]
    /\ frame = [p \in Callers |-> NoFrame]
    /\ ret = [p \in Callers |-> NoRet]
    /\ seq = TRUE
    /\ faulted = FALSE
    /\ lastSet = [k \in CacheKeys |-> NoSet]
    /\ calls = 0
    /\ env = [google |-> FALSE, mapbox |-> FALSE]
    /\ gpc = [r \in Requests |-> "idle"]
    /\ gframe = [r \in Requests |-> NoGFrame]
    /\ gret = [r \in Requests |-> NoGRet]
    /\ InitApp

NextScrape ==
    \/ scrapeAllOfficialSources
    \/ \E s \in Scrapers : scrapeOfficialSource_cached(s)
    \/ \E s \in Scrapers : scrapeOfficialSource_response(s)
    \/ \E s \in Scrapers : scrapeOfficialSource_return(s)
    \/ scrapeAllOfficialSources_settled
    \/ \E s \in Scrapers : getFromCache_select(s)
    \/ \E s \in Scrapers : getFromCache_check(s)
    \/ \E s \in Scrapers : getFromCache_delete(s)
    \/ \E s \in Scrapers : setCache_upsert(s)

SpecScrape == InitScrape /\ [][NextScrape]_vars

\* Bodies of POST /api/geocoding/reverse.  latitude: absent, 0, 45, 91, '45',
\* '12abc', 'abc'; longitude: absent, 10, '7', '-181'.
ReverseLatitudes ==
    {Undefined, Num(0), Num(45 * CoordScale), Num(0 - MaxLatitude * CoordScale),
     Num(91 * CoordScale), Str(<<52, 53>>), Str(<<49, 50, 97, 98, 99>>), Str(<<97, 98, 99>>)}

ReverseLongitudes ==
    {Undefined, Num(0), Num(10 * CoordScale), Num(MaxLongitude * CoordScale), Str(<<55>>),
     Str(<<45, 49, 56, 49>>)}

ReverseBodies == [latitude : ReverseLatitudes, longitude : ReverseLongitudes]

\* Bodies of POST /api/disasters.  title: absent, 'Fire', 'Flood', 200 and 201
\* letters, three emoji (U+1F525, six code units); description: absent, nine
\* and ten letters, five emoji; location_name: absent, 'NYC', 'Unknown
\* Location'.
Letters(n) == Str([i \in 1..n |-> 97])

Emoji(n) == Str([i \in 1..(2 * n) |-> IF i % 2 = 1 THEN 55357 ELSE 56613])

DisasterTitles ==
    {Undefined, Str(<<70, 105, 114, 101>>), Str(<<70, 108, 111, 111, 100>>),
     Letters(MaxTitleLength), Letters(MaxTitleLength + 1), Emoji(3)}

DisasterDescriptions ==
    {Undefined, Letters(MinDescriptionLength - 1), Letters(MinDescriptionLength), Emoji(5)}

DisasterLocations == {Undefined, Str(<<78, 89, 67>>), UnknownLocation}

DisasterBodies ==
    [title : DisasterTitles, description : DisasterDescriptions,
     location_name : DisasterLocations]

\* Cache rows that earlier reverse geocoding calls left: one for (45, 10),
\* still good, and one for (45, 7) that has expired.
ReverseSeeds ==
    {[key |-> ReverseKey(Num(45 * CoordScale), Num(10 * CoordScale)),
      value |-> ReverseData(Num(45 * CoordScale), Num(10 * CoordScale), "1 Main St",
                            "google_maps", 0 - TickMs),
      expires_at |-> ExpiresAt(0 - TickMs, ReverseTtl)],
     [key |-> ReverseKey(Num(45 * CoordScale), Num(7 * CoordScale)),
      value |-> ReverseData(Num(45 * CoordScale), Num(7 * CoordScale), "Unknown Location",
                            "openstreetmap", 0 - ReverseTtl * MsPerSec - TickMs),
      expires_at |-> toISOString(0 - TickMs)]}

\* The disaster that an earlier POST /api/disasters left in the table: 'Flood'
\* in 'NYC', with the coordinates OpenStreetMap gave.
DisasterSeed ==
    [DisasterData([NoHReq EXCEPT !.body = Some([title |-> Str(<<70, 108, 111, 111, 100>>),
                                                 description |-> Letters(MinDescriptionLength),
                                                 location_name |-> Str(<<78, 89, 67>>)])],
                  [NoHFrame EXCEPT !.finalLocationName = Str(<<78, 89, 67>>)],
                  0 - TickMs)
        EXCEPT !.latitude = Some(Num(407000)), !.longitude = Some(Num(0 - 740000))]

\* PUT /api/disasters/:id for the disaster of the table and for one it does not
\* hold; bodies: a title too short, and a good title and description with no
\* location name, the same ('NYC') and a new one ('LA').
UpdateIds == {0, 1}

UpdateBodies ==
    [title : {Str(<<70, 105, 114, 101>>), Str(<<70, 108, 111, 111, 100>>)},
     description : {Letters(MinDescriptionLength)},
     location_name : {Undefined, Str(<<78, 89, 67>>), Str(<<76, 65>>)}]

InitHandler ==
    /\ now = 0
    /\ supabase \in BOOLEAN
    /\ store \in IF supabase THEN SUBSET ReverseSeeds ELSE {{}}
    /\ cpc = [p \in Callers |-> "idle"]
    /\ frame = [p \in Callers |-> NoFrame]
    /\ ret = [p \in Callers |-> NoRet]
    /\ seq = TRUE
    /\ faulted = FALSE
    /\ lastSet = [k \in CacheKeys |-> NoSet]
    /\ calls = 0
    /\ env \in {[google |-> g, mapbox |-> FALSE] : g \in BOOLEAN}
    /\ gpc = [r \in Requests |-> "idle"]
    /\ gframe = [r \in Requests |-> NoGFrame]
    /\ gret = [r \in Requests |-> NoGRet]
    /\ InitHandlers
    /\ InitPure
    /\ disasters = IF supabase THEN {DisasterSeed} ELSE {}
    /\ reports = {}

NextHandler ==
    \/ \E r \in Service, body \in ReverseBodies :
          calls < MaxSingleCalls /\ PostReverse(r, body)
    \/ \E r \in Service : reverseGeocode_cached(r)
    \/ \E r \in Service : reverseGeocode_google(r)
    \/ \E r \in Service : reverseGeocode_osm(r)
    \/ \E r \in Service : reverseGeocode_return(r)
    \/ \E r \in Service, body \in DisasterBodies :
          calls < MaxSingleCalls /\ PostDisasters(r, body)
    \/ \E r \in Service : PostDisasters_geocoded(r)
    \/ \E r \in Service : PostDisasters_insert(r)
    \/ \E r \in Service, id \in UpdateIds, body \in UpdateBodies :
          calls < MaxSingleCalls /\ PutDisaster(r, id, body)
    \/ \E r \in Service : PutDisaster_selected(r)
    \/ \E r \in Service : PutDisaster_geocoded(r)
    \/ \E r \in Service : PutDisaster_update(r)
    \/ \E r \in Service : geocodeWith_cached(r)
    \/ \E r \in Service : geocodeWith_response(r)
    \/ \E r \in Service : geocodeWith_return(r)
    \/ \E r \in Service : getFromCache_select(r)
    \/ \E r \in Service : getFromCache_check(r)
    \/ \E r \in Service : getFromCache_delete(r)
    \/ \E r \in Service : setCache_upsert(r)

SpecHandler == InitHandler /\ [][NextHandler]_vars

\* POST /api/disasters and PUT /api/disasters/:id by two requests that may
\* interleave, on a table that starts empty; the bodies are good and name no
\* location, so that no request geocodes.
AuditBody ==
    [title |-> Str(<<70, 108, 111, 111, 100>>), description |-> Letters(MinDescriptionLength),
     location_name |-> Undefined]

AuditIds == 1..2

InitAudit ==
    /\ now = 0
    /\ supabase = TRUE
    /\ store = {}
    /\ cpc = [p \in Callers |-> "idle"]
    /\ frame = [p \in Callers |-> NoFrame]
    /\ ret = [p \in Callers |-> NoRet]
    /\ seq = TRUE
    /\ faulted = FALSE
    /\ lastSet = [k \in CacheKeys |-> NoSet]
    /\ calls = 0
    /\ env = [google |-> FALSE, mapbox |-> FALSE]
    /\ gpc = [r \in Requests |-> "idle"]
    /\ gframe = [r \in Requests |-> NoGFrame]
    /\ gret = [r \in Requests |-> NoGRet]
    /\ InitApp

NextAudit ==
    \/ \E r \in Requests : PostDisasters(r, AuditBody)
    \/ \E r \in Requests : PostDisasters_insert(r)
    \/ \E r \in Requests, id \in AuditIds : PutDisaster(r, id, AuditBody)
    \/ \E r \in Requests : PutDisaster_selected(r)
    \/ \E r \in Requests : PutDisaster_update(r)

SpecAudit == InitAudit /\ [][NextAudit]_vars

\* The reports table as the schema script leaves it: its sample rows name the
\* columns id, disaster_id, user_id, content, verification_status and
\* created_at, one row 'verified' and one 'pending' (the third sample row is
\* 'verified' like the first; the content is shortened).
SampleReports ==
    {[id |-> 11, disaster_id |-> 0, user_id |-> "citizen1",
      content |-> Letters(MinContentLength), image_url |-> Undefined,
      verification_status |-> Verified, verified_at |-> Null, verified_by |-> Null,
      verification_notes |-> Null, created_at |-> toISOString(0 - 2 * TickMs)],
     [id |-> 12, disaster_id |-> 0, user_id |-> "citizen2",
      content |-> Letters(MinContentLength), image_url |-> Undefined,
      verification_status |-> Pending, verified_at |-> Null, verified_by |-> Null,
      verification_notes |-> Null, created_at |-> toISOString(0 - TickMs)]}

\* POST /api/reports with no disaster_id, with the disaster of the table ('0')
\* and with one it does not hold ('7'), a content of 9 and of 10 characters,
\* with and without an image_url ('x').
ReportBodies ==
    [disaster_id : {Undefined, Str(<<48>>), Str(<<55>>)},
     content : {Letters(MinContentLength - 1), Letters(MinContentLength)},
     image_url : {Undefined, Str(<<120>>)}]

\* PUT /api/reports/:id/verify for the reports the requests may have made, a
\* sample report and a report the table does not hold; the three statuses, no
\* status and 'Verified'; no notes.
VerifyIds == {1, 2, 11, 9}

VerifyBodies ==
    [verification_status : validStatuses \cup {Undefined, Str(<<86, 101, 114, 105, 102, 105, 101, 100>>)},
     notes : {Undefined}]

InitReports ==
    /\ now = 0
    /\ supabase \in BOOLEAN
    /\ store = {}
    /\ cpc = [p \in Callers |-> "idle"]
    /\ frame = [p \in Callers |-> NoFrame]
    /\ ret = [p \in Callers |-> NoRet]
    /\ seq = TRUE
    /\ faulted = FALSE
    /\ lastSet = [k \in CacheKeys |-> NoSet]
    /\ calls = 0
    /\ env = [google |-> FALSE, mapbox |-> FALSE]
    /\ gpc = [r \in Requests |-> "idle"]
    /\ gframe = [r \in Requests |-> NoGFrame]
    /\ gret = [r \in Requests |-> NoGRet]
    /\ InitHandlers
    /\ InitPure
    /\ disasters = IF supabase THEN {DisasterSeed} ELSE {}
    /\ reports \in IF supabase THEN {{}, SampleReports} ELSE {{}}

NextReports ==
    \/ \E r \in Requests, body \in ReportBodies : PostReport(r, body)
    \/ \E r \in Requests : PostReport_selected(r)
    \/ \E r \in Requests : PostReport_insert(r)
    \/ \E r \in Requests, id \in VerifyIds, body \in VerifyBodies : PutVerify(r, id, body)
    \/ \E r \in Requests : PutVerify_selected(r)
    \/ \E r \in Requests : PutVerify_update(r)

SpecReports == InitReports /\ [][NextReports]_vars

\* One stream, opened by the route or by the service, its timer, its fetches
\* and its end.
NextStream ==
    \/ GetStream
    \/ streamSocialMediaUpdates
    \/ Stream_interval
    \/ Stream_fetched
    \/ Stream_stop

SpecStream == InitAudit /\ [][NextStream]_vars

\* GET /api/official-updates/:disaster_id for the disasters '1' and '1_nyc',
\* with no sources, 'nyc_emergency_management', 'nyc,emergency_management'
\* and 'emergency_management'.
KeyIds == {<<49>>, <<49, 95, 110, 121, 99>>}

KeySources ==
    {Undefined,
     Str(<<110, 121, 99, 95, 101, 109, 101, 114, 103, 101, 110, 99, 121, 95, 109, 97, 110, 97, 103, 101, 109, 101, 110, 116>>),
     Str(<<110, 121, 99, 44, 101, 109, 101, 114, 103, 101, 110, 99, 121, 95, 109, 97, 110, 97, 103, 101, 109, 101, 110, 116>>),
     Str(<<101, 109, 101, 114, 103, 101, 110, 99, 121, 95, 109, 97, 110, 97, 103, 101, 109, 101, 110, 116>>)}

KeyQueries ==
    [sources : KeySources, priority : {Undefined}, type : {Undefined},
     limit : {Undefined}, offset : {Undefined}]

NextKeys ==
    \/ \E u \in Updaters, d \in KeyIds, q \in KeyQueries : GetOfficialUpdates(u, d, q)
    \/ \E u \in Updaters : fetchOfficialUpdates_cached(u)
    \/ \E u \in Updaters : fetchOfficialUpdates_return(u)
    \/ \E u \in Updaters : getFromCache_select(u)
    \/ \E u \in Updaters : getFromCache_check(u)
    \/ \E u \in Updaters : getFromCache_delete(u)
    \/ \E u \in Updaters : setCache_upsert(u)

SpecKeys == InitUpdates /\ [][NextKeys]_vars

\* geocodeLocation('NYC') called by two requests, with OpenStreetMap and, when
\* its key is set, Google Maps; the cache may hold what an earlier call got
\* from OpenStreetMap.
MockSeeds == {row \in SeedRows : row.key = GeocodeKey("osm", Str(<<78, 89, 67>>))}

InitMock ==
    /\ now = 0
    /\ supabase \in BOOLEAN
    /\ store \in IF supabase THEN {{}} \cup {{row} : row \in MockSeeds} ELSE {{}}
    /\ cpc = [p \in Callers |-> "idle"]
    /\ frame = [p \in Callers |-> NoFrame]
    /\ ret = [p \in Callers |-> NoRet]
    /\ seq = TRUE
    /\ faulted = FALSE
    /\ lastSet = [k \in CacheKeys |-> NoSet]
    /\ calls = 0
    /\ env \in {[google |-> g, mapbox |-> FALSE] : g \in BOOLEAN}
    /\ gpc = [r \in Requests |-> "idle"]
    /\ gframe = [r \in Requests |-> NoGFrame]
    /\ gret = [r \in Requests |-> NoGRet]
    /\ InitApp

NextMock ==
    \/ Tick
    \/ \E r \in Requests :
          calls < MaxMockCalls /\ geocodeLocation(r, Str(<<78, 89, 67>>))
    \/ \E r \in Requests : geocodeWith_cached(r)
    \/ \E r \in Requests : geocodeWith_response(r)
    \/ \E r \in Requests : geocodeWith_return(r)
    \/ \E r \in Requests : getFromCache_select(r)
    \/ \E r \in Requests : getFromCache_check(r)
    \/ \E r \in Requests : getFromCache_delete(r)
    \/ \E r \in Requests : setCache_upsert(r)

SpecMock == InitMock /\ [][NextMock]_vars

\* filterUpdatesByPriority, called with lists of up to MaxUpdates updates of
\* every priority and with each of the four minimum priorities.
MaxUpdates == 3

FilterPriorities == {"low", "medium", "high", "critical"}

FilterUpdates ==
    UNION {[1..n -> FilterPriorities] : n \in 0..MaxUpdates}

FilterInputs ==
    {[updates |-> [i \in 1..Len(ps) |-> [id |-> i, priority |-> ps[i]]], minPriority |-> p] :
        ps \in FilterUpdates, p \in FilterPriorities}

InitFilter ==
    /\ now = 0
    /\ supabase = FALSE
    /\ store = {}
    /\ cpc = [p \in Callers |-> "idle"]
    /\ frame = [p \in Callers |-> NoFrame]
    /\ ret = [p \in Callers |-> NoRet]
    /\ seq = TRUE
    /\ faulted = FALSE
    /\ lastSet = [k \in CacheKeys |-> NoSet]
    /\ calls = 0
    /\ env = [google |-> FALSE, mapbox |-> FALSE]
    /\ gpc = [r \in Requests |-> "idle"]
    /\ gframe = [r \in Requests |-> NoGFrame]
    /\ gret = [r \in Requests |-> NoGRet]
    /\ InitHandlers
    /\ InitTables
    /\ scoreIn = NoScoreIn
    /\ scoreOut = Null
    /\ filterIn \in FilterInputs
    /\ filterOut = Null

NextFilter == FilterUpdatesByPriority

SpecFilter == InitFilter /\ [][NextFilter]_vars

\* ===================================================== properties
\* A step in which caller p's getFromCache call returns.
GetReturns(p) == ret'[p] # ret[p] /\ ret'[p].op = "get" /\ ret'[p].kind = "return"

\* The instant the entry written by the latest setCache(k, ...) expires.
SetExpiry(k) == lastSet[k].w + lastSet[k].ttl * MsPerSec

\* The history is one of calls that did not overlap, on a working store,
\* and key k was written by a setCache call.
CleanHistory(k) == seq' /\ ~faulted' /\ supabase /\ lastSet[k].n > 0

\* C1: getFromCache never returns a stale value: whenever a call returns a
\* value, it is the value of the row its select read, and that row's
\* expires_at is not earlier than the clock at the return (so not earlier
\* than the time of the read either).
C1_NoStaleRead ==
    [][\A p \in Clients :
         (GetReturns(p) /\ ret'[p].value # Null) =>
            \E r \in frame[p].data :
               /\ r.key = ret'[p].key
               /\ ret'[p].value = Some(r.value)
               /\ ParseDate(r.expires_at) >= now]_vars

\* C1 witness: a getFromCache call has returned the stored value at the very
\* instant the row expires.
C1_Witness ==
    \E p \in Clients : \E r \in store :
       /\ ret[p].op = "get" /\ ret[p].via = "hit"
       /\ ret[p].key = r.key /\ ret[p].value = Some(r.value)
       /\ ParseDate(r.expires_at) = now

\* C2 as stated: after setCache(k, v, t) at time w, every getFromCache(k) that
\* returns at now >= w + t (now = w + t included) returns null and leaves no
\* row for k.
C2_AbsentFromExpiryInstant ==
    [][\A p \in Clients :
         LET k == ret'[p].key
         IN  (GetReturns(p) /\ CleanHistory(k) /\ now >= SetExpiry(k)) =>
                (ret'[p].value = Null /\ SelectByKey(store', k) = {})]_vars

\* C2 amended: the same for now > w + t only; at now = w + t the value is
\* still returned.
C2_AbsentAfterExpiry ==
    [][\A p \in Clients :
         LET k == ret'[p].key
         IN  /\ (GetReturns(p) /\ CleanHistory(k) /\ now > SetExpiry(k)) =>
                   (ret'[p].value = Null /\ SelectByKey(store', k) = {})
             /\ (GetReturns(p) /\ CleanHistory(k) /\ now = SetExpiry(k)
                   /\ cpc[p] = "get_check") =>
                   ret'[p].value = Some(lastSet[k].value)]_vars

\* C2 witness: a getFromCache call found the entry expired after w + t,
\* returned null, and the row is gone.
C2_Witness ==
    \E p \in Clients :
       LET k == ret[p].key
       IN  /\ seq /\ ~faulted /\ ret[p].op = "get" /\ ret[p].via = "expired"
           /\ lastSet[k].n > 0 /\ now > SetExpiry(k)
           /\ SelectByKey(store, k) = {}

\* C3: in a history of calls that do not overlap, on a working store, a
\* getFromCache(k) that returns at now < w + t returns exactly the value of
\* the latest setCache(k, v, t), whatever other calls ran in between.
C3_FreshReadReturnsValue ==
    [][\A p \in Clients :
         LET k == ret'[p].key
         IN  (GetReturns(p) /\ CleanHistory(k) /\ now < SetExpiry(k)) =>
                ret'[p].value = Some(lastSet[k].value)]_vars

\* C3 witness: the third call of a history (after the setCache and one other
\* call) read the value back before w + t.
C3_Witness ==
    \E p \in Clients :
       LET k == ret[p].key
       IN  /\ seq /\ ~faulted /\ ret[p].op = "get" /\ ret[p].via = "hit"
           /\ lastSet[k].n = 1 /\ now < SetExpiry(k)
           /\ ret[p].value = Some(lastSet[k].value)
           /\ calls = MaxCalls
           /\ \A k2 \in CacheKeys \ {k} : lastSet[k2].n = 0

\* C4 as stated: a step that removes a key from the store removes only a row
\* whose expires_at is in the past at that moment.
C4_OnlyExpiredDeleted ==
    [][\A r \in store :
         SelectByKey(store', r.key) = {} => ParseDate(r.expires_at) < now]_vars

\* C5: at most one row per key, always; and in a history of calls that do not
\* overlap, after two setCache calls of one key with different values a
\* getFromCache within the TTL returns the second value, never the first.
C5_Upsert ==
    /\ [](\A r1, r2 \in store : r1.key = r2.key => r1 = r2)
    /\ [][\A p \in Clients :
            LET k == ret'[p].key
            IN  (GetReturns(p) /\ CleanHistory(k) /\ lastSet[k].n = 2
                   /\ lastSet[k].prev # lastSet[k].value /\ now < SetExpiry(k)) =>
                   (ret'[p].value = Some(lastSet[k].value)
                      /\ ret'[p].value # Some(lastSet[k].prev))]_vars

\* C5 witness: two setCache calls with different values, then a hit that
\* returned the second.
C5_Witness ==
    \E p \in Clients :
       LET k == ret[p].key
       IN  /\ seq /\ ~faulted /\ ret[p].op = "get" /\ ret[p].via = "hit"
           /\ lastSet[k].n = 2 /\ lastSet[k].prev # lastSet[k].value
           /\ ret[p].value = Some(lastSet[k].value)
           /\ Cardinality(SelectByKey(store, k)) = 1

\* C6: no cache call throws; a getFromCache call in which a store call failed,
\* or made without a client, returns null; a setCache or cleanupExpiredCache
\* call in which the store call failed, or made without a client, leaves the
\* table as it was.
C6_FailuresSwallowed ==
    /\ [](\A p \in Clients :
            /\ ret[p].kind # "throw"
            /\ (ret[p].op = "get" /\ ret[p].via \in {"error", "demo"}) =>
                  ret[p].value = Null)
    /\ [][\A p \in Clients :
            (ret'[p] # ret[p] /\ ret'[p].op \in {"set", "cleanup"}
               /\ ret'[p].via \in {"error", "demo"}) => store' = store]_vars

\* C6 witness: every kind of call has ended after a store failure, one of them
\* a getFromCache.
C6_Witness ==
    /\ faulted
    /\ \E p, q \in Clients :
          /\ ret[p].op = "get" /\ ret[p].via = "error" /\ ret[p].kind = "return"
          /\ ret[q].op \in {"set", "cleanup"} /\ ret[q].via = "error"
          /\ ret[q].kind = "return"

\* C7: the delete of cleanupExpiredCache removes only rows with
\* expires_at < now (now: the clock read by the call), leaves every other row
\* as it was, removes all of them when the store carries it out, and a second
\* delete with the same cutoff changes nothing.
C7_CleanupExact ==
    [][\A p \in Clients :
         (cpc[p] = "cleanup_delete" /\ cpc'[p] = "idle") =>
            LET cutoff == ParseDate(frame[p].expires_at)
            IN  /\ store' \subseteq store
                /\ \A r \in store \ store' : ParseDate(r.expires_at) < cutoff
                /\ ret'[p].via = "ok" =>
                      /\ \A r \in store' : ParseDate(r.expires_at) >= cutoff
                      /\ DeleteExpired(store', frame[p].expires_at) = store']_vars

\* C7 witness: a cleanup has removed one written entry and left another, one
\* that expires at the very cutoff.
C7_Witness ==
    \E p \in Clients : \E k1, k2 \in CacheKeys :
       /\ seq /\ ~faulted /\ ret[p].op = "cleanup" /\ ret[p].via = "ok"
       /\ lastSet[k1].n > 0 /\ SelectByKey(store, k1) = {}
       /\ \E r \in SelectByKey(store, k2) : ParseDate(r.expires_at) = now

\* The geocodeLocation call of request r that is running, or the last one that
\* ended: its providers contacted and failed so far.
Cur(r) == IF gpc[r] = "idle" THEN gret[r] ELSE gframe[r]

Range(q) == {q[i] : i \in 1..Len(q)}

\* C8: geocodeLocation contacts providers in the order Google Maps, Mapbox,
\* OpenStreetMap, a provider only after every earlier configured provider has
\* failed, and none after one has answered: it returns the record made from
\* the answer of the last provider contacted, which is the first that did not
\* fail.
C8_FallbackOrder ==
    \A r \in Requests :
       LET c == Cur(r).contacted
           f == Cur(r).failed
       IN  /\ \A i, j \in 1..Len(c) : i < j => Rank(c[i]) < Rank(c[j])
           /\ \A i \in 1..Len(c) : \A q \in Range(Chain) :
                 Rank(q) < Rank(c[i]) => q \in Range(f)
           /\ \A i \in 1..Len(c) : i < Len(c) => c[i] \in Range(f)
           /\ (gpc[r] = "idle" /\ gret[r].via = "fetched") =>
                 /\ c # <<>> /\ c[Len(c)] \notin Range(f)
                 /\ gret[r].result[1].provider = ProviderName(c[Len(c)])
                 /\ gret[r].result[1].locationName = gret[r].location
           /\ (gpc[r] = "idle" /\ gret[r].via \in {"cache", "mock"}) =>
                 Range(c) \subseteq Range(f)

\* C8 witness: Google Maps failed, Mapbox answered, its record was returned
\* and OpenStreetMap was not contacted.
C8_Witness ==
    \E r \in Requests :
       /\ env["google"] /\ env["mapbox"]
       /\ gret[r].kind = "return" /\ gret[r].via = "fetched"
       /\ gret[r].contacted = <<"google", "mapbox">>
       /\ gret[r].failed = <<"google">>
       /\ gret[r].result[1].provider = "mapbox"

\* C9: a provider whose credential is not set is never contacted; with neither
\* credential set only OpenStreetMap is contacted and the record returned
\* names provider openstreetmap or mock.
C9_OnlyConfiguredContacted ==
    \A r \in Requests :
       /\ \A p \in Range(Cur(r).contacted) : Configured(p)
       /\ (~env["google"] /\ ~env["mapbox"]) =>
             /\ Range(Cur(r).contacted) \subseteq {"osm"}
             /\ gret[r].kind = "return" =>
                   gret[r].result[1].provider \in {"openstreetmap", "mock"}

\* C9 witness: with neither credential set, and a Google Maps record for the
\* location in the cache, OpenStreetMap alone was contacted and its record
\* returned.
C9_Witness ==
    \E r \in Requests :
       /\ ~env["google"] /\ ~env["mapbox"]
       /\ gret[r].kind = "return" /\ gret[r].via = "fetched"
       /\ gret[r].contacted = <<"osm">>
       /\ gret[r].result[1].provider = "openstreetmap"
       /\ SelectByKey(store, GeocodeKey("google", gret[r].location)) # {}

\* C10: geocodeLocation never throws, and a call in which every configured
\* provider failed returns a record with provider mock, confidence low, an
\* error text and numeric latitude and longitude.
C10_MockWhenAllFail ==
    \A r \in Requests :
       /\ gret[r].kind # "throw"
       /\ gpc[r] # "idle" => ~(Range(Chain) \subseteq Range(gframe[r].failed))
       /\ (gpc[r] = "idle" /\ gret[r].kind # "none"
             /\ Range(Chain) \subseteq Range(gret[r].failed)) =>
             /\ gret[r].kind = "return"
             /\ gret[r].result # Null
             /\ gret[r].result[1].provider = "mock"
             /\ gret[r].result[1].confidence = "low"
             /\ gret[r].result[1].error # Null
             /\ gret[r].result[1].error # Some("")
             /\ IsNumeric(gret[r].result[1].latitude)
             /\ IsNumeric(gret[r].result[1].longitude)
             /\ gret[r].result[1].locationName = gret[r].location

\* C10 witness: with both credentials set, all three providers were contacted
\* and failed, and the mock record was returned.
C10_Witness ==
    \E r \in Requests :
       /\ env["google"] /\ env["mapbox"]
       /\ gret[r].kind = "return" /\ gret[r].via = "mock"
       /\ gret[r].contacted = <<"google", "mapbox", "osm">>
       /\ gret[r].failed = <<"google", "mapbox", "osm">>
       /\ gret[r].result[1].provider = "mock"

\* C11 as stated: every geocodeLocation call eventually returns, whatever the
\* providers do (a provider that never answers included).
C11_EveryCallReturns ==
    \A r \in Requests : (gpc[r] # "idle") ~> (gpc[r] = "idle")

\* 24 hours, in ms
DayMs == 24 * 60 * 60 * MsPerSec

\* A step in which request r returns a record it has just fetched.
FreshReturn(r) == gpc[r] = "cache_set" /\ gpc'[r] = "idle"

\* After the step, the cache holds the record request r returns, under the
\* key of the provider that answered, expiring 24 hours after it was made.
CacheHolds(r) ==
    LET c == gret'[r].contacted
    IN  \E row \in store' :
           /\ row.key = GeocodeKey(c[Len(c)], gret'[r].location)
           /\ row.value = gret'[r].result[1]
           /\ ParseDate(row.expires_at) >= ParseDate(row.value.timestamp) + DayMs
           /\ ParseDate(row.expires_at) <= now + DayMs

\* C12 as stated: with a working store, at the moment a call returns a freshly
\* fetched record the cache holds that record, under the provider's key and
\* with a TTL of 24 hours.
C12_CacheHoldsAtReturn ==
    [][\A r \in Requests :
         (FreshReturn(r) /\ supabase /\ ~faulted) => CacheHolds(r)]_vars

\* C12 amended: the setCache call for the provider's key has returned before
\* the record is returned; and the cache holds the record at that moment when
\* the store works and no other request has overlapped.
C12_WrittenBeforeReturn ==
    [][\A r \in Requests :
         FreshReturn(r) =>
            LET c == gret'[r].contacted
            IN  /\ gret'[r].via = "fetched"
                /\ ret[r].op = "set" /\ ret[r].kind = "return"
                /\ ret[r].key = GeocodeKey(c[Len(c)], gret'[r].location)
                /\ (supabase /\ ~faulted /\ seq) => CacheHolds(r)]_vars

\* C12 witness: in a history without overlap, on a working store, the second
\* request has fetched a record from OpenStreetMap after Google Maps failed,
\* and the cache holds it for 24 hours.
C12_Witness ==
    \E r \in Requests :
       /\ seq /\ ~faulted /\ supabase /\ calls = MaxRouteCalls
       /\ gpc[r] = "idle" /\ gret[r].via = "fetched"
       /\ gret[r].contacted = <<"google", "osm">>
       /\ \E row \in store :
             /\ row.key = GeocodeKey("osm", gret[r].location)
             /\ row.value = gret[r].result[1]
             /\ ParseDate(row.expires_at) = ParseDate(row.value.timestamp) + DayMs

\* A step in which request r2 ends a geocodeLocation call for the location of
\* an earlier call of request r1 that ended, without overlap, with a record
\* of its first eligible provider (fetched or found in the cache).
SecondCallEnds(r1, r2) ==
    /\ gpc[r2] # "idle" /\ gpc'[r2] = "idle"
    /\ ~gframe[r2].forced
    /\ gpc[r1] = "idle" /\ gret[r1].kind = "return" /\ ~gret[r1].forced
    /\ gret[r1].via \in {"fetched", "cache"} /\ gret[r1].failed = <<>>
    /\ gret[r1].location = gframe[r2].location
    /\ seq /\ ~faulted /\ supabase

\* C13 as stated: two geocodeLocation calls for the same location (within the
\* TTL, same configuration) return the same result with at most one external
\* request between them.
C13_TwoCallsOneRequest ==
    \A r1, r2 \in Requests :
       (r1 # r2 /\ gpc[r1] = "idle" /\ gpc[r2] = "idle"
          /\ gret[r1].kind = "return" /\ gret[r2].kind = "return"
          /\ ~gret[r1].forced /\ ~gret[r2].forced
          /\ gret[r1].location = gret[r2].location) =>
          /\ gret[r1].result = gret[r2].result
          /\ Len(gret[r1].contacted) + Len(gret[r2].contacted) <= 1

\* C13 amended: a provider whose cache lookup finds an entry is not contacted
\* and the stored value is returned unchanged; and after a call that ended
\* with a record of its first eligible provider, a later call for the same
\* location that overlaps no other, on a working store, returns the same
\* record from the cache with no external request.
C13_HitShortCircuits ==
    [][\A r \in Requests :
         /\ (gpc[r] = "cache_get" /\ gpc'[r] # "cache_get" /\ ret[r].value # Null) =>
               /\ gpc'[r] = "idle"
               /\ gret'[r].kind = "return" /\ gret'[r].via = "cache"
               /\ gret'[r].result = ret[r].value
               /\ gret'[r].contacted = gframe[r].contacted
               /\ gframe[r].provider \notin Range(gret'[r].contacted)
         /\ \A r1 \in Requests \ {r} :
               SecondCallEnds(r1, r) =>
                  /\ gret'[r].kind = "return" /\ gret'[r].via = "cache"
                  /\ gret'[r].result = gret[r1].result
                  /\ gret'[r].contacted = <<>>]_vars

\* C13 witness: the first call fetched a record from Google Maps, the second,
\* later and for the same location, returned it from the cache and contacted
\* no provider.
C13_Witness ==
    \E r1, r2 \in Requests :
       /\ r1 # r2 /\ seq /\ ~faulted /\ supabase
       /\ gpc[r1] = "idle" /\ gpc[r2] = "idle"
       /\ ~gret[r1].forced /\ ~gret[r2].forced
       /\ gret[r1].via = "fetched" /\ gret[r1].contacted = <<"google">>
       /\ gret[r2].via = "cache" /\ gret[r2].contacted = <<>>
       /\ gret[r2].location = gret[r1].location
       /\ gret[r2].result = gret[r1].result

\* C14 as stated: every row stored under the geocode key of a provider and a
\* location holds a record of that provider and that location; and a request
\* forced to a provider is never answered with a record of another provider.
C14_EntriesScopedByProvider ==
    /\ \A row \in store : \A p \in Range(Providers) : \A l \in RouteLocations :
          row.key = GeocodeKey(p, l) =>
             /\ row.value.provider = ProviderName(p)
             /\ row.value.locationName = l
    /\ \A r \in Requests :
          (gret[r].kind = "return" /\ gret[r].forced) =>
             \E p \in Range(Providers) :
                /\ gret[r].result[1].provider = ProviderName(p)
                /\ Range(gret[r].contacted) \subseteq {p}

\* C15 as stated: a POST /api/geocoding/geocode request with a non-empty
\* location_name and no provider or a supported provider name is answered
\* with a record (of a provider, or the mock), never with a 5xx status.
C15_NeverServerError ==
    \A r \in Requests :
       (gpc[r] = "idle" /\ gret[r].kind # "none" /\ Truthy(gret[r].location)
          /\ gret[r].kind # "invalid") =>
          /\ Response(r).status = 200
          /\ Response(r).body # Null

\* The rank of a priority: critical > high > medium > low.
PriorityRank(priority) ==
    CASE priority = "critical" -> 3
      [] priority = "high" -> 2
      [] priority = "medium" -> 1
      [] priority = "low" -> 0

InOrder(a, b) ==
    \/ PriorityRank(a.priority) > PriorityRank(b.priority)
    \/ /\ PriorityRank(a.priority) = PriorityRank(b.priority)
       /\ ParseDate(a.published_at) >= ParseDate(b.published_at)

\* C16: the updates list that fetchOfficialUpdates returns, fetched or from
\* the cache, is sorted by priority rank descending and, among equal
\* priorities, newest first: in every adjacent pair a, b either a ranks higher
\* or the ranks are equal and a is not older than b; a critical update comes
\* before every update that is not critical.
C16_SortedByPriorityThenDate ==
    \A u \in Updaters :
        uret[u].kind = "return" =>
            LET updates == uret[u].data[1].updates
            IN  /\ \A i \in 1..(Len(updates) - 1) : InOrder(updates[i], updates[i + 1])
                /\ \A i, j \in 1..Len(updates) :
                       (updates[i].priority = "critical" /\ updates[j].priority # "critical")
                           => i < j

\* All five updates came back: the critical one first, and a high update ahead
\* of a medium one that is newer.
C16_Witness ==
    \E u \in Updaters :
        /\ uret[u].kind = "return"
        /\ LET updates == uret[u].data[1].updates
           IN  /\ Len(updates) = 5
               /\ updates[1].priority = "critical"
               /\ \E i, j \in 1..5 :
                      /\ i < j
                      /\ updates[i].priority = "high" /\ updates[j].priority = "medium"
                      /\ ParseDate(updates[i].published_at) < ParseDate(updates[j].published_at)

\* C17: calculatePriority returns an integer from 5 to 10 for every urgency
\* (critical, high, medium, low or another), content type, number of urgent
\* keywords in the content and non-negative engagement counts.
C17_PriorityInRange ==
    scoreOut # Null => scoreOut[1] \in 5..10

\* A critical emergency alert with all six keywords and more than 100
\* reactions (5 + 4 + 3 + 6 + 2 before the cap) has been scored.
C17_Witness ==
    /\ scoreOut # Null
    /\ PriorityScore(scoreIn.post, scoreIn.analysis) = 20
    /\ scoreOut[1] = 10

\* Does an update pass the filters a response reports: a priority of at least
\* the one asked for, a type among those asked for.
PassesFilters(update, filters) ==
    /\ Truthy(filters.priority) =>
          \A p \in {"critical", "high", "medium", "low"} :
              FromUnits(filters.priority.units) = p
                  => PriorityRank(update.priority) >= PriorityRank(p)
    /\ filters.type # Null =>
          \E i \in 1..Len(filters.type[1]) : FromUnits(Trim(filters.type[1][i])) = update.type

\* The elements of list at the positions (counted from 0) from first to last.
Positions(list, first, last) ==
    LET at == {i \in 1..Len(list) : first <= i - 1 /\ i - 1 <= last}
    IN  IF at = {} THEN <<>>
        ELSE SubSeq(list, CHOOSE i \in at : \A j \in at : i <= j,
                          CHOOSE i \in at : \A j \in at : i >= j)

\* C18: GET /api/official-updates/:disaster_id filters the fetched sorted list
\* by priority and type before it paginates: the page is exactly the elements
\* at positions offset .. offset+limit-1 of the filtered list, in its order,
\* pagination.total is the size of the filtered list, and has_more is true
\* exactly when offset + limit is less than that size.
C18_PageIsOffsetLimitSlice ==
    \A u \in Updaters :
        (uresp[u].status = 200
           /\ IsNumeric(uresp[u].body[1].pagination.offset)
           /\ IsNumeric(uresp[u].body[1].pagination.limit)) =>
            LET body == uresp[u].body[1]
                fetched == uret[u].data[1].updates
                keep(update) == PassesFilters(update, body.filters)
                filtered == Filter(fetched, keep)
                offset == body.pagination.offset.v
                limit == body.pagination.limit.v
            IN  /\ body.updates = Positions(filtered, offset, offset + limit - 1)
                /\ body.pagination.total = Len(filtered)
                /\ body.pagination.has_more <=> (offset + limit < Len(filtered))

\* The updates of the sources that succeeded, in the order of the sources.
RECURSIVE SucceededUpdates(_)
SucceededUpdates(order) ==
    IF order = <<>> THEN <<>>
    ELSE (IF sres[order[1]].scraped # Null THEN sres[order[1]].scraped[1] ELSE <<>>)
            \o SucceededUpdates(Tail(order))

\* C19: scrapeAllOfficialSources isolates the failures of single sources: all
\* sources are being scraped while it waits, and whichever of them fail
\* (network error, timeout, a page that cannot be read), it returns, without
\* throwing, the concatenation of the updates of the sources that succeeded.
C19_FailuresIsolated ==
    /\ apc = "waiting" => \A s \in Scrapers : spc[s] # "idle"
    /\ aret.kind # "none" =>
          /\ aret.kind = "return"
          /\ aret.updates = SucceededUpdates(ScraperOrder)

\* The call has returned updates although a source failed: one source timed
\* out or was unreachable, another gave updates.
C19_Witness ==
    /\ aret.kind = "return"
    /\ aret.updates # <<>>
    /\ \E s \in Scrapers :
          /\ sres[s].status = "fulfilled" /\ sres[s].scraped = Null
          /\ sres[s].value[1].error \in {"network", "timeout"}
    /\ \E s \in Scrapers : sres[s].scraped # Null /\ sres[s].scraped[1] # <<>>

\* A numeral: an optional sign, digits, and an optional point with digits.
IsNumeral(units) ==
    LET body == IF units # <<>> /\ units[1] \in {43, 45} THEN Tail(units) ELSE units
        int == DigitUnits(body)
        rest == SubSeq(body, Len(int) + 1, Len(body))
    IN  /\ int # <<>>
        /\ \/ rest = <<>>
           \/ /\ rest[1] = 46
              /\ DigitUnits(Tail(rest)) # <<>>
              /\ DigitUnits(Tail(rest)) = Tail(rest)

\* A coordinate that is missing, not a number, or beyond the limit (degrees).
InvalidCoordinate(x, limit) ==
    \/ x = Undefined
    \/ "type" \in DOMAIN x /\ x.type = "string" /\ ~IsNumeral(x.units)
    \/ LET value == ParseFloatValue(x)
       IN  /\ IsNumeric(value)
           /\ (value.v < 0 - limit * CoordScale \/ value.v > limit * CoordScale)

\* The number of characters of a string: a surrogate pair is one character.
CharCount(units) ==
    Len(units) - Cardinality({i \in 1..(Len(units) - 1) :
                                /\ units[i] >= 55296 /\ units[i] <= 56319
                                /\ units[i + 1] >= 56320 /\ units[i + 1] <= 57343})

\* The requests the validation has to turn away.
InvalidRequest(req) ==
    \/ /\ req.route = "reverse"
       /\ \/ InvalidCoordinate(req.body[1].latitude, 90)
          \/ InvalidCoordinate(req.body[1].longitude, 180)
    \/ /\ req.route = "disasters"
       /\ \/ req.body[1].title = Undefined
          \/ req.body[1].description = Undefined
          \/ CharCount(req.body[1].title.units) < 5
          \/ CharCount(req.body[1].title.units) > 200
          \/ CharCount(req.body[1].description.units) < 10

\* C20: invalid input never reaches the services or the store.  A POST
\* /api/geocoding/reverse whose latitude or longitude is missing, not a number
\* or out of range, and a POST /api/disasters whose title or description is
\* missing, whose title has fewer than 5 or more than 200 characters or whose
\* description has fewer than 10, is answered 400 in the step that receives
\* it, with no provider call, no cache access and no write to the store.
C20_InvalidInputRejected ==
    [][\A r \in Requests :
          (hreq'[r] # hreq[r] /\ InvalidRequest(hreq'[r])) =>
              /\ hresp'[r].status = 400
              /\ hpc'[r] = "idle"
              /\ UNCHANGED <<store, disasters, cpc, frame, ret, geoVars>>]_vars

\* A JSON number within the limit (degrees), the limit included.
ValidCoordinate(x, limit) ==
    /\ "t" \in DOMAIN x /\ x.t = "number"
    /\ x.v >= 0 - limit * CoordScale /\ x.v <= limit * CoordScale

\* C30: POST /api/geocoding/reverse accepts every valid coordinate pair.  A
\* request whose latitude is a number in [-90, 90] and whose longitude is a
\* number in [-180, 180], 0 and the bounds included, passes validation, and
\* reverseGeocode is called with exactly those numbers.
C30_ValidCoordinatesAccepted ==
    [][\A r \in Requests :
          (/\ hreq'[r] # hreq[r] /\ hreq'[r].route = "reverse"
           /\ ValidCoordinate(hreq'[r].body[1].latitude, MaxLatitude)
           /\ ValidCoordinate(hreq'[r].body[1].longitude, MaxLongitude)) =>
              /\ hpc'[r] = "reverse_cache_get"
              /\ hframe'[r].latitude = hreq'[r].body[1].latitude
              /\ hframe'[r].longitude = hreq'[r].body[1].longitude]_vars

\* The fallback shape of a reverseGeocode call: Google Maps first and only
\* with its key, OpenStreetMap only after Google Maps was skipped, failed or
\* had no result, and nothing after OpenStreetMap.
FallbackShape(answers) ==
    \/ answers = <<>>
    \/ /\ answers[1][1] = IF env.google THEN "google" ELSE "osm"
       /\ \/ Len(answers) = 1
          \/ /\ Len(answers) = 2
             /\ answers[1] \in {<<"google", "empty">>, <<"google", "throw">>}
             /\ answers[2][1] = "osm"

\* A step in which the reverseGeocode call of request r ends after it has
\* contacted providers, none of which had a result.
EndsWithoutResult(r) ==
    /\ hreq[r].route = "reverse" /\ hpc[r] # "idle" /\ hpc'[r] = "idle"
    /\ hframe'[r].answers # <<>>
    /\ \A i \in 1..Len(hframe'[r].answers) : hframe'[r].answers[i][2] # "ok"

\* C23: reverseGeocode is total and follows the fallback shape.  Google Maps
\* is contacted first and only when its key is set, OpenStreetMap only after
\* Google Maps was skipped, failed or had no result; the call never throws (the
\* route never answers 500); and when no provider had a result the call
\* returns a record with provider 'none', formattedAddress 'Unknown Location'
\* and an error, which the cache does not hold.
C23_ReverseFallbackShape ==
    [][\A r \in Requests :
          /\ FallbackShape(hframe'[r].answers)
          /\ hreq'[r].route = "reverse" => hresp'[r].status # 500
          /\ EndsWithoutResult(r) =>
                /\ hresp'[r].status = 200
                /\ hresp'[r].body[1].provider = "none"
                /\ hresp'[r].body[1].formattedAddress = "Unknown Location"
                /\ hresp'[r].body[1].error # Null
                /\ \A row \in store' : row.value # hresp'[r].body[1]]_vars

\* C24: filterUpdatesByPriority(updates, p) returns, in their original order,
\* exactly the updates whose priority rank is at least the rank of p, for p
\* low, medium, high and critical; with p = 'low' no update is removed.
C24_KeepsRankAtLeast ==
    filterOut # Null =>
        LET keep(update) ==
                PriorityRank(update.priority) >= PriorityRank(filterIn.minPriority)
        IN  /\ filterOut[1] = Filter(filterIn.updates, keep)
            /\ filterIn.minPriority = "low" => filterOut[1] = filterIn.updates

\* A step in which the geocodeLocation call of request r returns the mock
\* record.
MockReturn(r) == gret'[r] # gret[r] /\ gret'[r].via = "mock"

\* A step in which request r2 ends a geocodeLocation call that began after the
\* call of request r1 for the same location had returned the mock record.
NextCallEnds(r1, r2) ==
    /\ gpc[r2] # "idle" /\ gpc'[r2] = "idle"
    /\ gpc[r1] = "idle" /\ gret[r1].via = "mock"
    /\ gret[r1].location = gframe[r2].location
    /\ seq

\* C25 as stated: the mock record is never written to the cache; after a call
\* in which every provider failed the cache holds no entry for the location,
\* and the next call for it contacts the providers again.
C25_NoEntryAfterMock ==
    [][\A r \in Requests :
          /\ \A row \in store' : row.value.provider # "mock"
          /\ MockReturn(r) =>
                \A i \in 1..Len(Providers) :
                    SelectByKey(store', GeocodeKey(Providers[i], gret'[r].location)) = {}
          /\ \A r1 \in Requests \ {r} :
                NextCallEnds(r1, r) => gret'[r].contacted # <<>>]_vars

\* C25 amended: no cache entry ever holds a mock record, the step that
\* returns the mock record writes nothing, and a record returned from the
\* cache is never a mock; so the next call for the location, when no call
\* overlaps another and the store has not failed, contacts the first eligible
\* provider again.
C25_MockNeverCached ==
    [][\A r \in Requests :
          /\ \A row \in store' : row.value.provider # "mock"
          /\ MockReturn(r) =>
                /\ store' = store /\ lastSet' = lastSet
                /\ cpc'[r] = "idle" /\ ret[r].op = "get" /\ ret[r].value = Null
          /\ gret'[r].via = "cache" => gret'[r].result[1].provider # "mock"
          /\ \A r1 \in Requests \ {r} :
                (NextCallEnds(r1, r) /\ ~faulted) =>
                    /\ gret'[r].contacted # <<>>
                    /\ gret'[r].contacted[1] = Head(Chain)
                    /\ gret'[r].via \in {"fetched", "mock"}]_vars

\* C25 witness: a call returned the mock record after every provider failed,
\* the cache holds nothing, and the next call, which contacted the providers
\* again, has returned a mock record too.
C25_Witness ==
    \E r1, r2 \in Requests :
       /\ r1 # r2 /\ seq /\ ~faulted /\ supabase /\ store = {}
       /\ gpc[r1] = "idle" /\ gpc[r2] = "idle"
       /\ gret[r1].via = "mock" /\ gret[r2].via = "mock"
       /\ gret[r1].contacted = Chain /\ gret[r2].contacted = Chain
       /\ calls = MaxMockCalls

\* The lists of sources (or keywords) of the requests: the query split at the
\* commas.
KeyLists ==
    {IF q = Undefined THEN <<>> ELSE Split(q.units, 44) : q \in KeySources}

\* C27: aggregation cache keys are injective in their inputs.  Two
\* fetchOfficialUpdates calls, or two fetchSocialMediaReports calls, whose
\* disaster id or list of sources (keywords) differ use different cache keys,
\* so a call never returns a result computed for another disaster or another
\* list: the result an official updates request is answered from carries the
\* disaster id and the sources of that request.
C27_KeysInjective ==
    /\ \A d1, d2 \in KeyIds : \A l1, l2 \in KeyLists :
          <<d1, l1>> # <<d2, l2>> =>
              /\ UpdatesKey(d1, l1) # UpdatesKey(d2, l2)
              /\ SocialKey(d1, l1) # SocialKey(d2, l2)
    /\ \A u \in Updaters :
          uresp[u].status = 200 =>
              /\ uret[u].data[1].disaster_id = uresp[u].body[1].disaster_id
              /\ uret[u].data[1].sources_requested = uresp[u].body[1].filters.sources

\* A step in which the handler of request r writes a disaster after the
\* geocodeLocation call it made returned the mock record (every provider
\* failed).
WritesAfterMock(r, pc) ==
    /\ hpc[r] = pc /\ hpc'[r] = "idle"
    /\ hresp'[r].status \in {200, 201}
    /\ hframe[r].coordinates # Null
    /\ gret[r].kind = "return" /\ gret[r].via = "mock"

\* C26: mock coordinates are never persisted as a disaster's location.  A
\* disaster created while every geocoding provider fails is stored with null
\* coordinates, and one updated while every provider fails keeps its previous
\* coordinates, not the synthesized ones of the record whose provider is mock.
C26_MockNotPersisted ==
    [][\A r \in Requests :
          /\ WritesAfterMock(r, "disaster_insert") =>
                \E d \in disasters' :
                    /\ d.id = hreq[r].n
                    /\ d.latitude = Null /\ d.longitude = Null
          /\ WritesAfterMock(r, "update_send") =>
                \E d \in disasters' :
                    /\ d.id = hreq[r].id
                    /\ d.location = hframe[r].existing[1].location
                    /\ d.latitude = hframe[r].existing[1].latitude
                    /\ d.longitude = hframe[r].existing[1].longitude]_vars

\* The 'disaster_created' events broadcast for the disaster with this id.
CreatedEvents(log, id) ==
    {i \in 1..Len(log) : log[i].name = "disaster_created" /\ log[i].disaster.id = id}

\* C21: for POST /api/disasters a failed insert is answered 500 and no
\* 'disaster_created' event is broadcast; the event is broadcast only after
\* the insert has succeeded, exactly once per created disaster, and before the
\* 201 response is sent.
C21_CreatedEventAfterInsert ==
    [][/\ \A r \in Requests :
            (hpc[r] = "disaster_insert" /\ hpc'[r] = "idle") =>
                \/ /\ hresp'[r].status = 500
                   /\ events' = events /\ disasters' = disasters
                \/ /\ hresp'[r].status = 201
                   /\ hresp'[r].body[1] \in disasters' \ disasters
                   /\ events' = Append(events, [name |-> "disaster_created",
                                                disaster |-> hresp'[r].body[1],
                                                timestamp |-> toISOString(now)])
       /\ \A r \in Requests :
            (hreq'[r].route = "disasters" /\ hresp'[r].status = 201) =>
                CreatedEvents(events', hresp'[r].body[1].id) # {}
       /\ \A d \in disasters' : Cardinality(CreatedEvents(events', d.id)) = 1
       /\ \A i \in 1..Len(events') :
            events'[i].name = "disaster_created" =>
                \E d \in disasters' : d.id = events'[i].disaster.id]_vars

\* C21 witness: one POST was answered 201 and its disaster broadcast, another
\* was answered 500 after its insert failed, and nothing was broadcast for it.
C21_Witness ==
    \E r1, r2 \in Requests :
       /\ hreq[r1].route = "disasters" /\ hresp[r1].status = 201
       /\ hreq[r2].route = "disasters" /\ hresp[r2].status = 500
       /\ Cardinality(disasters) = 1
       /\ Len(events) = 1 /\ events[1].name = "disaster_created"
       /\ events[1].disaster = hresp[r1].body[1]

\* list begins with the entries of prefix, in their order.
IsPrefix(prefix, list) ==
    Len(prefix) <= Len(list) /\ SubSeq(list, 1, Len(prefix)) = prefix

\* C22: a disaster's audit trail is a complete change history.  Every
\* successful PUT /api/disasters/:id adds exactly one 'updated' entry to the
\* audit trail the disaster had, and no entry once recorded is ever lost, also
\* when two updates of the same disaster interleave.
C22_AuditTrailComplete ==
    [][/\ \A r \in Requests :
            (hpc[r] = "update_send" /\ hresp'[r].status = 200) =>
                \E d \in disasters, d2 \in disasters' :
                   /\ d.id = hreq[r].id /\ d2.id = hreq[r].id
                   /\ Len(d2.audit_trail) = Len(d.audit_trail) + 1
                   /\ IsPrefix(d.audit_trail, d2.audit_trail)
                   /\ d2.audit_trail[Len(d2.audit_trail)].action = "updated"
       /\ \A d \in disasters :
            \E d2 \in disasters' : d2.id = d.id /\ IsPrefix(d.audit_trail, d2.audit_trail)]_vars

\* A report whose status is one of the three and whose verified_at and
\* verified_by are set exactly when the status is not 'pending'.
ReportSound(x) ==
    /\ x.verification_status \in validStatuses
    /\ (x.verified_at # Null) <=> (x.verification_status # Pending)
    /\ (x.verified_by # Null) <=> (x.verification_status # Pending)

C29_StoppedStreamIsSilent ==
    [][stream.state = "stopped" => stream'.out = stream.out]_vars

====
